---- MODULE Spec2Model ----
(***************************************************************************)
(* A model of hera_pspec.pspecdata.PSpecData: the spectral-window state,   *)
(* the matrix caches and their keys, the cached matrix accessors, flag     *)
(* broadcasting, cov_q_hat and the pspec() orchestration loop; and of the  *)
(* PSpecContainer file transactions, UVPSpec.select, the baseline-pair     *)
(* integers, grouping.group_baselines and the bad antennas of calc_reds.   *)
(*                                                                         *)
(* Matrices are modelled by what they are computed from: the value of a    *)
(* matrix is the term naming its kind and the values of its inputs, so two *)
(* matrices are equal exactly when they were computed from equal inputs.   *)
(* Shapes are kept, because numpy raises on operands whose shapes do not   *)
(* broadcast.  A Python call is an operator from the object's state to a   *)
(* result record [st, err, val, ev]: the state it leaves, the exception it *)
(* raised ("none" when it returned), the value returned, and the ordered   *)
(* events (matrix computations, flag writes) it performed.                 *)
(***************************************************************************)
EXTENDS Integers, Sequences, FiniteSets, TLC

\* ------------------------------------------------------------ bounds
\* Channels of every dataset (UVData.Nfreqs).
NFREQ == 2
\* Integrations of every dataset (UVData.Ntimes).
NTIMES == 2
\* Calls made on the object in one behaviour.
MaxCalls == 3

\* ------------------------------------------------------------ inputs
Chans == 0 .. (NFREQ - 1)
Times == 0 .. (NTIMES - 1)

\* The UVData objects at hand: two datasets with the same baselines; the
\* second one lacks polarization "yy".
Pool == {0, 1}
DsetBls(p) == {"A", "B"}
DsetPols(p) == IF p = 0 THEN {"xx", "yy"} ELSE {"xx"}
BlPols(p) == DsetBls(p) \X DsetPols(p)

\* A flag waterfall: the flagged channels of each integration.
Unflagged == [t \in Times |-> {}]
FlagArray0 == [p \in Pool |-> [bp \in BlPols(p) |-> Unflagged]]
\* Dataset 0, baseline A, pol xx has channel 0 flagged in integration 0.
FlagArray1 ==
  [FlagArray0 EXCEPT ![0][<<"A", "xx">>] = [t \in Times |-> IF t = 0 THEN {0} ELSE {}]]

\* Keys (dataset index, baseline, polarization) the accessors are called with.
K0 == <<0, "A", "xx">>
K1 == <<1, "A", "xx">>
AccKeys == {K0, K1}

SpwRanges == {<<0, 1>>, <<1, NFREQ>>, <<0, NFREQ>>}
FilterExtensions == {<<0, 0>>, <<1, 0>>, <<NFREQ, NFREQ>>}
NdlysArgs == {1, NFREQ, NFREQ + 1}
Weightings == {"identity", "iC", "dayenu"}
Tapers == {"none", "bh"}
RParamVals == {"p1", "p2"}
NormModes == {"I", "H^-1", "V^-1/2", "H^-1/2", "L^-1"}
CovModels == {"empirical", "dsets", "empirical_pspec"}

\* ------------------------------------------------------------ state
VARIABLES
  dsets,             \* self.dsets: the datasets added, as Pool members
  flag_array,        \* UVData.flag_array of every dataset of the Pool
  primary_beam,      \* self.primary_beam is not None
  spw_range,         \* self.spw_range
  spw_Nfreqs,        \* self.spw_Nfreqs
  spw_Ndlys,         \* self.spw_Ndlys
  filter_extension,  \* self.filter_extension
  data_weighting,    \* self.data_weighting
  taper,             \* self.taper
  r_params,          \* self.r_params
  _C, _I, _iC, _Y, _R, _G, _H, _M, _W, _E, _V,   \* the matrix caches
  last,              \* the last call made on the object and its outcome
  ncalls,            \* calls made so far
  psc,               \* a PSpecContainer and the HDF5 file it manages
  uvp                \* a UVPSpec object

objvars == <<dsets, flag_array, primary_beam, spw_range, spw_Nfreqs, spw_Ndlys,
             filter_extension, data_weighting, taper, r_params,
             _C, _I, _iC, _Y, _R, _G, _H, _M, _W, _E, _V>>
vars == <<ncalls, objvars, last, psc, uvp>>

\* The object (and the datasets it refers to) as one record.
Self ==
  [dsets |-> dsets, flag_array |-> flag_array, primary_beam |-> primary_beam,
   spw_range |-> spw_range, spw_Nfreqs |-> spw_Nfreqs, spw_Ndlys |-> spw_Ndlys,
   filter_extension |-> filter_extension, data_weighting |-> data_weighting,
   taper |-> taper, r_params |-> r_params,
   _C |-> _C, _I |-> _I, _iC |-> _iC, _Y |-> _Y, _R |-> _R, _G |-> _G,
   _H |-> _H, _M |-> _M, _W |-> _W, _E |-> _E, _V |-> _V]

Commit(st) ==
  /\ dsets' = st.dsets
  /\ flag_array' = st.flag_array
  /\ primary_beam' = st.primary_beam
  /\ spw_range' = st.spw_range
  /\ spw_Nfreqs' = st.spw_Nfreqs
  /\ spw_Ndlys' = st.spw_Ndlys
  /\ filter_extension' = st.filter_extension
  /\ data_weighting' = st.data_weighting
  /\ taper' = st.taper
  /\ r_params' = st.r_params
  /\ _C' = st._C /\ _I' = st._I /\ _iC' = st._iC /\ _Y' = st._Y
  /\ _R' = st._R /\ _G' = st._G /\ _H' = st._H /\ _M' = st._M
  /\ _W' = st._W /\ _E' = st._E /\ _V' = st._V

\* ------------------------------------------------------------ helpers
Min(a, b) == IF a < b THEN a ELSE b
Max(a, b) == IF a > b THEN a ELSE b

\* Python dicts as functions.
EmptyDict == << >>
Has(d, k) == k \in DOMAIN d
Put(d, k, v) == [x \in (DOMAIN d) \cup {k} |-> IF x = k THEN v ELSE d[x]]
Del(d, k) == [x \in (DOMAIN d) \ {k} |-> d[x]]

\* The result of a call.
Res(st, err, val, ev) == [st |-> st, err |-> err, val |-> val, ev |-> ev]
Ret(st, val, ev) == Res(st, "none", val, ev)
Raise(st, err, ev) == Res(st, err, "none", ev)
Ok(r) == r.err = "none"

\* Events.
Computed(kind) == <<"compute", kind>>
FlagWrite(p) == <<"flag_write", p>>
ComputedKinds(ev) == {ev[n][2] : n \in {m \in DOMAIN ev : ev[m][1] = "compute"}}

\* Python's slice(start, stop) on a sequence of length n: the first index
\* and the index after the last one.
SliceLo(n, start) == IF start < 0 THEN Max(start + n, 0) ELSE Min(start, n)
SliceHi(n, stop) == IF stop < 0 THEN Max(stop + n, 0) ELSE Min(stop, n)
SliceLen(n, start, stop) == Max(SliceHi(n, stop) - SliceLo(n, start), 0)

\* numpy broadcasting of two axis lengths; -1 when they do not broadcast.
Bcast(a, b) == IF a = b THEN a ELSE IF a = 1 THEN b ELSE IF b = 1 THEN a ELSE -1

\* Python's seq[i]: negative indices count from the end.
PyIndexOK(n, i) == (0 - n) <= i /\ i < n
PyIndex(n, i) == IF i < 0 THEN i + n ELSE i

\* The channel indices selected by slice(start, stop) of the band, in order.
SliceChans(start, stop) ==
  [i \in 1 .. SliceLen(NFREQ, start, stop) |-> SliceLo(NFREQ, start) + i - 1]

\* ------------------------------------------------------------ datasets
\* self.spw_range, widened by self.filter_extension when asked to.
SpwSlice(st, include_extension) ==
  IF include_extension
    THEN <<st.spw_range[1] - st.filter_extension[1],
           st.spw_range[2] + st.filter_extension[2]>>
    ELSE st.spw_range

\* clear_cache(clear_r_params, keys=None): every cache is emptied.
clear_cache_keeps_G(st, clear_r_params) ==
  LET s1 == IF clear_r_params THEN [st EXCEPT !.r_params = EmptyDict] ELSE st
  IN [s1 EXCEPT !._C = EmptyDict, !._I = EmptyDict, !._iC = EmptyDict,
                !._Y = EmptyDict, !._R = EmptyDict,
                !._H = EmptyDict, !._M = EmptyDict, !._W = EmptyDict,
                !._E = EmptyDict, !._V = EmptyDict]
clear_cache(st, clear_r_params) ==
  LET s1 == IF clear_r_params THEN [st EXCEPT !.r_params = EmptyDict] ELSE st
  IN [s1 EXCEPT !._C = EmptyDict, !._I = EmptyDict, !._iC = EmptyDict,
                !._Y = EmptyDict, !._R = EmptyDict, !._G = EmptyDict,
                !._H = EmptyDict, !._M = EmptyDict, !._W = EmptyDict,
                !._E = EmptyDict, !._V = EmptyDict]

\* Python's == on two tuples whose items may be strings at one end and
\* integers at the other: equal when they print alike.
SameTuple(q, c) == ToString(q) = ToString(c)
\* clear_cache(clear_r_params, keys): for every k of keys, the entry stored
\* under exactly k is deleted from _C, _I, _iC, r_params, _Y and _R; _G, _H,
\* _M, _W, _E and _V are not visited.  (_I and _Y store under (dset, bl, pol);
\* _C, _iC and _R under that key followed by settings; r_params under the
\* weighting followed by the key.)
clear_cache_keys(st, clear_r_params, keys) ==
  LET s1 == IF clear_r_params THEN [st EXCEPT !.r_params = EmptyDict] ELSE st
      drop(d) == [k \in {c \in DOMAIN d : \A q \in keys : ~SameTuple(q, c)} |-> d[k]]
  IN [s1 EXCEPT !._C = drop(s1._C), !._I = drop(s1._I), !._iC = drop(s1._iC),
                !.r_params = drop(s1.r_params), !._Y = drop(s1._Y),
                !._R = drop(s1._R)]

\* add(dsets=[p], wgts=[None]) of a dataset whose shape agrees with the ones
\* held: appends it and resets the spectral window to the whole band.
add(st, p) ==
  [st EXCEPT !.dsets = Append(st.dsets, p),
             !.spw_range = <<0, NFREQ>>,
             !.spw_Nfreqs = NFREQ,
             !.spw_Ndlys = NFREQ]

\* self.dsets[dset] followed by get_data / get_flags of (bl, pol): the Pool
\* member read, or the exception raised.
Lookup(st, key) ==
  IF ~PyIndexOK(Len(st.dsets), key[1]) THEN "IndexError"
  ELSE IF <<key[2], key[3]>> \notin BlPols(st.dsets[PyIndex(Len(st.dsets), key[1]) + 1])
         THEN "KeyError"
  ELSE "none"
DsetOf(st, key) == st.dsets[PyIndex(Len(st.dsets), key[1]) + 1]

\* x(key, include_extension): the visibilities of the key in the window.
x(st, key, include_extension) ==
  LET sl == SpwSlice(st, include_extension)
  IN IF Lookup(st, key) # "none" THEN Raise(st, Lookup(st, key), << >>)
     ELSE Ret(st, [kind |-> "x", p |-> DsetOf(st, key), bl |-> key[2],
                   pol |-> key[3], chans |-> SliceChans(sl[1], sl[2])], << >>)

\* dx(key, include_extension): the standard deviations of the key.
dx(st, key, include_extension) ==
  LET sl == SpwSlice(st, include_extension)
  IN IF Lookup(st, key) # "none" THEN Raise(st, Lookup(st, key), << >>)
     ELSE Ret(st, [kind |-> "dx", p |-> DsetOf(st, key), bl |-> key[2],
                   pol |-> key[3], chans |-> SliceChans(sl[1], sl[2])], << >>)

\* w(key, include_extension) with no weights given: 1 where the flag array
\* is clear, 0 where it is set, for every integration, over the window.
w(st, key, include_extension) ==
  LET sl == SpwSlice(st, include_extension)
      ch == SliceChans(sl[1], sl[2])
      fl == st.flag_array[DsetOf(st, key)][<<key[2], key[3]>>]
  IN IF Lookup(st, key) # "none" THEN Raise(st, Lookup(st, key), << >>)
     ELSE Ret(st, [t \in Times |->
                     [i \in DOMAIN ch |-> IF ch[i] \in fl[t] THEN 0 ELSE 1]], << >>)

\* ------------------------------------------------------------ setters
set_spw(st, spw) ==
  [st EXCEPT !.spw_range = spw,
             !.spw_Nfreqs = spw[2] - spw[1]]

set_filter_extension(st, ext) ==
  [st EXCEPT !.filter_extension =
     <<Min(ext[1], st.spw_range[1]), Min(ext[2], NFREQ - st.spw_range[2])>>]

set_weighting(st, weighting) == [st EXCEPT !.data_weighting = weighting]

set_taper(st, tp) == [st EXCEPT !.taper = tp]

\* set_r_param(key, r_params): stored under (data_weighting,) + key.
set_r_param(st, key, r_param) ==
  [st EXCEPT !.r_params = Put(st.r_params, <<st.data_weighting>> \o key, r_param)]

\* set_Ndlys(ndlys); ndlys = -1 stands for ndlys=None.
set_Ndlys(st, ndlys) ==
  IF ndlys = -1 THEN Ret([st EXCEPT !.spw_Ndlys = st.spw_Nfreqs], "none", << >>)
  ELSE IF st.spw_Nfreqs < ndlys THEN Raise(st, "ValueError", << >>)
  ELSE Ret([st EXCEPT !.spw_Ndlys = ndlys], "none", << >>)

\* ------------------------------------------------------------ matrices
\* A call made after the events ev of its caller.
After(ev, r) == [r EXCEPT !.ev = ev \o r.ev]

\* self.spw_Nfreqs + np.sum(self.filter_extension)
Nfreq(st) == st.spw_Nfreqs + st.filter_extension[1] + st.filter_extension[2]

\* I(key): the identity matrix, cached under (dset, bl).
I(st, key) ==
  IF Has(st._I, key) THEN Ret(st, st._I[key], << >>)
  ELSE LET v == [kind |-> "I", n |-> Nfreq(st)]
       IN Ret([st EXCEPT !._I = Put(st._I, key, v)], v, <<Computed("I")>>)

\* Y(key): the weights of the key over the extended window, cached under
\* (dset, bl).
Y(st, key) ==
  IF Has(st._Y, key) THEN Ret(st, st._Y[key], << >>)
  ELSE LET r == w(st, key, TRUE)
       IN IF ~Ok(r) THEN r
          ELSE Ret([st EXCEPT !._Y = Put(st._Y, key, r.val)], r.val, <<Computed("Y")>>)

\* Number of channels of a weight array.
NChan(wv) == Len(wv[0])
\* Column time_index of a (channels x times) array of NTIMES columns.
Column(wv, t) == wv[PyIndex(NTIMES, t)]

\* C_model(key, model, time_index); time_index is << >> for None and <<t>>
\* for the integer t.
C_model(st, key, model, time_index) ==
  LET Ckey == IF model = "dsets" THEN key \o <<model>> \o time_index
              ELSE key \o <<model>>
      rx == x(st, key, TRUE)
      rw == w(st, key, TRUE)
      rdx == dx(st, key, TRUE)
      vE == [kind |-> "C", model |-> model, x |-> rx.val, w |-> rw.val,
             n |-> Len(rx.val.chans)]
      vD == [kind |-> "C", model |-> model, dx |-> rdx.val, t |-> time_index[1],
             wcol |-> Column(rw.val, time_index[1]), n |-> Len(rdx.val.chans)]
  IN IF model \notin {"empirical", "dsets"} THEN Raise(st, "AssertionError", << >>)
     ELSE IF model = "dsets" /\ time_index = << >> THEN Raise(st, "AssertionError", << >>)
     ELSE IF Has(st._C, Ckey) THEN Ret(st, st._C[Ckey], << >>)
     ELSE IF ~Ok(rx) THEN rx
     ELSE IF model = "empirical"
       THEN Ret([st EXCEPT !._C = Put(st._C, Ckey, vE)], vE, <<Computed("C")>>)
     ELSE IF ~PyIndexOK(NTIMES, time_index[1]) THEN Raise(st, "IndexError", << >>)
     ELSE Ret([st EXCEPT !._C = Put(st._C, Ckey, vD)], vD, <<Computed("C")>>)

\* iC(key, model): the (pseudo-)inverse of the weighted covariance, cached
\* under (dset, bl, model).
iC(st, key, model) ==
  LET Ckey == key \o <<model>>
      rc == C_model(st, key, model, << >>)
      ry == After(rc.ev, Y(rc.st, key))
      s == Bcast(NChan(ry.val), rc.val.n)
      v == [kind |-> "iC", C |-> rc.val, Y |-> ry.val, n |-> Nfreq(st)]
  IN IF Has(st._iC, Ckey) THEN Ret(st, st._iC[Ckey], << >>)
     ELSE IF ~Ok(rc) THEN rc
     ELSE IF ~Ok(ry) THEN ry
     ELSE IF s = -1 \/ Bcast(s, Nfreq(st)) # Nfreq(st)
       THEN Raise(ry.st, "ValueError", ry.ev)
     ELSE Ret([ry.st EXCEPT !._iC = Put(ry.st._iC, Ckey, v)], v,
              ry.ev \o <<Computed("iC")>>)

\* The weightings R() knows; any other leaves rmat unbound.
Dayenu == {"dayenu"}
\* R(key): the weighting matrix, cached under
\* (dset, bl, data_weighting, taper, filter_extension, spw_Nfreqs).
R(st, key) ==
  LET Rkey == key \o <<st.data_weighting, st.taper, st.filter_extension[1],
                       st.filter_extension[2], st.spw_Nfreqs>>
      ry == Y(st, key)
      ri == After(ry.ev, I(ry.st, key))
      rc == After(ry.ev, iC(ry.st, key, "empirical"))
      sl == SpwSlice(st, TRUE)
      rpk == <<st.data_weighting>> \o key
      nfq == SliceLen(NFREQ, sl[1], sl[2])
      val(K, Yv) == [kind |-> "R", weighting |-> st.data_weighting,
                     taper |-> st.taper, sN |-> st.spw_Nfreqs,
                     ext |-> st.filter_extension, K |-> K, Y |-> Yv]
      done(r, K, n) ==
        IF n # Nfreq(st) THEN Raise(r.st, "ValueError", r.ev)
        ELSE Ret([r.st EXCEPT !._R = Put(r.st._R, Rkey, val(K, ry.val))],
                 val(K, ry.val), r.ev \o <<Computed("R")>>)
  IN IF Has(st._R, Rkey) THEN Ret(st, st._R[Rkey], << >>)
     ELSE IF ~Ok(ry) THEN ry
     ELSE IF st.data_weighting = "identity"
       THEN IF Bcast(ri.val.n, NChan(ry.val)) = -1
              THEN Raise(ri.st, "ValueError", ri.ev)
              ELSE done(ri, ri.val, Bcast(ri.val.n, NChan(ry.val)))
     ELSE IF st.data_weighting = "iC"
       THEN IF ~Ok(rc) THEN rc ELSE done(rc, rc.val, rc.val.n)
     ELSE IF st.data_weighting \in Dayenu
       THEN IF ~Has(st.r_params, rpk) THEN Raise(ry.st, "ValueError", ry.ev)
            ELSE IF Bcast(nfq, NChan(ry.val)) = -1
              THEN Raise(ry.st, "ValueError", ry.ev)
            ELSE done(ry, [kind |-> "dayenu", r_params |-> st.r_params[rpk],
                           freqs |-> SliceChans(sl[1], sl[2])],
                      Bcast(nfq, NChan(ry.val)))
     ELSE Raise(ry.st, "UnboundLocalError", ry.ev)

\* tuple(Y(key1)[:,time_index]) + tuple(Y(key2)[:,time_index]): the weights
\* of the two keys in the integration, which end the keys of _G, _H, _M, _E
\* and _V.
YCols(st, key1, key2, time_index) ==
  LET r1 == Y(st, key1)
      r2 == After(r1.ev, Y(r1.st, key2))
  IN IF ~Ok(r1) THEN r1
     ELSE IF ~PyIndexOK(NTIMES, time_index) THEN Raise(r1.st, "IndexError", r1.ev)
     ELSE IF ~Ok(r2) THEN r2
     ELSE Ret(r2.st, Column(r1.val, time_index) \o Column(r2.val, time_index), r2.ev)

\* R(key1) and then R(key2); the value is the pair.
RPair(st, key1, key2) ==
  LET r1 == R(st, key1)
      r2 == After(r1.ev, R(r1.st, key2))
  IN IF ~Ok(r1) THEN r1
     ELSE IF ~Ok(r2) THEN r2
     ELSE Ret(r2.st, <<r1.val, r2.val>>, r2.ev)

\* What numpy refuses in the body of _get_G and _get_H: with one channel in
\* the window and an extension, squeeze() turns R into a vector that does
\* not align with Q; with exact_norm, the beam integral over the extended
\* frequencies must have the size of Q.
FisherShapeError(st, exact_norm) ==
  LET sl == SpwSlice(st, TRUE)
  IN \/ st.spw_Nfreqs = 1 /\ Nfreq(st) > 1
     \/ /\ exact_norm
        /\ \/ Bcast(st.spw_Nfreqs, SliceLen(NFREQ, st.spw_range[1], st.spw_range[2]))
                # st.spw_Nfreqs
           \/ Bcast(Nfreq(st), SliceLen(NFREQ, sl[1], sl[2])) # Nfreq(st)

\* What the beam integral and the delays are computed from (exact_norm only).
BeamTerm(st, exact_norm, pol) ==
  IF exact_norm THEN <<pol, st.spw_range, st.filter_extension, st.primary_beam>>
  ELSE << >>

\* _get_G that leaves the matrix out of self._G.
_get_G_unstored(st, key1, key2, time_index, exact_norm, pol) ==
  LET yc == YCols(st, key1, key2, time_index)
      rr == After(yc.ev, RPair(yc.st, key1, key2))
      v == [kind |-> "G", R1 |-> rr.val[1], R2 |-> rr.val[2],
            t |-> PyIndex(NTIMES, time_index), Ndlys |-> st.spw_Ndlys,
            beam |-> BeamTerm(st, exact_norm, pol)]
  IN IF ~Ok(yc) THEN yc
     ELSE IF ~Ok(rr) THEN rr
     ELSE IF FisherShapeError(st, exact_norm) THEN Raise(rr.st, "ValueError", rr.ev)
     ELSE Ret(rr.st, v, rr.ev \o <<Computed("G")>>)

\* _get_G(key1, key2, time_index, exact_norm, pol)
_get_G(st, key1, key2, time_index, exact_norm, pol) ==
  LET yc == YCols(st, key1, key2, time_index)
      Gkey == key1 \o key2
              \o <<st.data_weighting, st.taper, pol, exact_norm, st.spw_Ndlys>>
              \o yc.val
      rr == After(yc.ev, RPair(yc.st, key1, key2))
      v == [kind |-> "G", R1 |-> rr.val[1], R2 |-> rr.val[2],
            t |-> PyIndex(NTIMES, time_index), Ndlys |-> st.spw_Ndlys,
            beam |-> BeamTerm(st, exact_norm, pol)]
  IN IF ~Ok(yc) THEN yc
     ELSE IF Has(yc.st._G, Gkey) THEN Ret(yc.st, yc.st._G[Gkey], yc.ev)
     ELSE IF ~Ok(rr) THEN rr
     ELSE IF FisherShapeError(st, exact_norm) THEN Raise(rr.st, "ValueError", rr.ev)
     ELSE Ret([rr.st EXCEPT !._G = Put(rr.st._G, Gkey, v)], v,
              rr.ev \o <<Computed("G")>>)

\* _get_H(key1, key2, time_index, sampling, exact_norm, pol)
_get_H(st, key1, key2, time_index, sampling, exact_norm, pol) ==
  LET yc == YCols(st, key1, key2, time_index)
      Hkey == key1 \o key2
              \o <<st.data_weighting, st.taper, pol, exact_norm, st.spw_Ndlys,
                   sampling>>
              \o yc.val
      rr == After(yc.ev, RPair(yc.st, key1, key2))
      v == [kind |-> "H", R1 |-> rr.val[1], R2 |-> rr.val[2],
            t |-> PyIndex(NTIMES, time_index), Ndlys |-> st.spw_Ndlys,
            beam |-> BeamTerm(st, exact_norm, pol), sampling |-> sampling]
  IN IF ~Ok(yc) THEN yc
     ELSE IF Has(yc.st._H, Hkey) THEN Ret(yc.st, yc.st._H[Hkey], yc.ev)
     ELSE IF ~Ok(rr) THEN rr
     ELSE IF FisherShapeError(st, exact_norm) THEN Raise(rr.st, "ValueError", rr.ev)
     ELSE Ret([rr.st EXCEPT !._H = Put(rr.st._H, Hkey, v)], v,
              rr.ev \o <<Computed("H")>>)

\* The weights of integration t inside the window are all zero, which makes
\* row t of the weighting matrix (and every matrix built on it) all zero.
WindowFlagged(Rv, t) ==
  LET Yv == IF Rv.weighting = "iC" THEN Rv.K.Y ELSE Rv.Y
  IN \A i \in 1 .. Rv.sN :
       (Rv.ext[1] + i) \in DOMAIN Yv[t] => Yv[t][Rv.ext[1] + i] = 0
AllZero(m) == WindowFlagged(m.R1, m.t) \/ WindowFlagged(m.R2, m.t)

\* The matrices of the integrations of a list, in order.
RECURSIVE GEach(_, _, _, _, _, _)
GEach(st, key1, key2, time_indices, exact_norm, pol) ==
  IF time_indices = << >> THEN Ret(st, << >>, << >>)
  ELSE LET r == _get_G(st, key1, key2, Head(time_indices), exact_norm, pol)
           rest == After(r.ev, GEach(r.st, key1, key2, Tail(time_indices),
                                     exact_norm, pol))
       IN IF ~Ok(r) THEN r
          ELSE IF ~Ok(rest) THEN rest
          ELSE Ret(rest.st, <<r.val>> \o rest.val, rest.ev)

RECURSIVE HEach(_, _, _, _, _, _, _)
HEach(st, key1, key2, time_indices, sampling, exact_norm, pol) ==
  IF time_indices = << >> THEN Ret(st, << >>, << >>)
  ELSE LET r == _get_H(st, key1, key2, Head(time_indices), sampling, exact_norm, pol)
           rest == After(r.ev, HEach(r.st, key1, key2, Tail(time_indices),
                                     sampling, exact_norm, pol))
       IN IF ~Ok(r) THEN r
          ELSE IF ~Ok(rest) THEN rest
          ELSE Ret(rest.st, <<r.val>> \o rest.val, rest.ev)

\* np.arange(self.Ntimes): the default of time_indices.
AllTimes == [i \in 1 .. NTIMES |-> i - 1]

\* An array that is all zero is replaced by identity matrices.
OrIdentity(st, ms) ==
  IF \A i \in DOMAIN ms : AllZero(ms[i])
    THEN [kind |-> "eye", n |-> st.spw_Ndlys, len |-> Len(ms)]
    ELSE [kind |-> "stack", of |-> ms]

\* get_G(key1, key2, exact_norm, pol, time_indices)
get_G(st, key1, key2, exact_norm, pol, time_indices) ==
  LET r == GEach(st, key1, key2, time_indices, exact_norm, pol)
  IN IF ~Ok(r) THEN r ELSE Ret(r.st, OrIdentity(st, r.val), r.ev)

\* get_H(key1, key2, sampling, exact_norm, pol, time_indices)
get_H(st, key1, key2, sampling, exact_norm, pol, time_indices) ==
  LET r == HEach(st, key1, key2, time_indices, sampling, exact_norm, pol)
  IN IF ~Ok(r) THEN r ELSE Ret(r.st, OrIdentity(st, r.val), r.ev)

\* get_unnormed_E(key1, key2, time_index, exact_norm, pol)
get_unnormed_E(st, key1, key2, time_index, exact_norm, pol) ==
  LET yc == YCols(st, key1, key2, time_index)
      Ekey == key1 \o key2
              \o <<pol, exact_norm, st.taper, st.spw_Ndlys, st.data_weighting>>
              \o yc.val
      rr == After(yc.ev, RPair(yc.st, key1, key2))
      \* integral_beam (sN x sN) times Q.R2 (sN x nfreq), stored as nfreq x nfreq
      c == Bcast(st.spw_Nfreqs, Nfreq(st))
      v == [kind |-> "E", R1 |-> rr.val[1], R2 |-> rr.val[2], t |-> time_index,
            Ndlys |-> st.spw_Ndlys, beam |-> BeamTerm(st, exact_norm, pol)]
  IN IF ~Ok(yc) THEN yc
     ELSE IF Has(yc.st._E, Ekey) THEN Ret(yc.st, yc.st._E[Ekey], yc.ev)
     ELSE IF ~(time_index >= 0 /\ time_index < NTIMES)
       THEN Raise(yc.st, "AssertionError", yc.ev)
     ELSE IF ~Ok(rr) THEN rr
     ELSE IF exact_norm /\ (c = -1 \/ Bcast(c, Nfreq(st)) # Nfreq(st))
       THEN Raise(rr.st, "ValueError", rr.ev)
     ELSE Ret([rr.st EXCEPT !._E = Put(rr.st._E, Ekey, v)], v,
              rr.ev \o <<Computed("E")>>)

\* q_hat that takes the FFT shortcut whenever allow_fft is set.
q_hat_fft_unguarded(st, key1, key2, allow_fft, exact_norm, pol) ==
  LET r1 == R(st, key1)
      x1 == x(st, key1, TRUE)
      r2 == After(r1.ev, R(r1.st, key2))
      x2 == x(st, key2, TRUE)
      v == [kind |-> "q_hat", R1 |-> r1.val, R2 |-> r2.val, x1 |-> x1.val,
            x2 |-> x2.val, Ndlys |-> st.spw_Ndlys, fft |-> allow_fft,
            beam |-> BeamTerm(st, exact_norm, pol)]
  IN IF ~Ok(r1) THEN r1
     ELSE IF ~Ok(x1) THEN Raise(r1.st, x1.err, r1.ev)
     ELSE IF Len(x1.val.chans) # Nfreq(st) THEN Raise(r1.st, "ValueError", r1.ev)
     ELSE IF ~Ok(r2) THEN r2
     ELSE IF ~Ok(x2) THEN Raise(r2.st, x2.err, r2.ev)
     ELSE IF Len(x2.val.chans) # Nfreq(st) THEN Raise(r2.st, "ValueError", r2.ev)
     ELSE Ret(r2.st, v, r2.ev \o <<Computed("q_hat")>>)

\* q_hat(key1, key2, allow_fft, exact_norm, pol): not cached. The value
\* records in fft whether the FFT branch produced it.
q_hat(st, key1, key2, allow_fft, exact_norm, pol) ==
  LET r1 == R(st, key1)
      x1 == x(st, key1, TRUE)
      r2 == After(r1.ev, R(r1.st, key2))
      x2 == x(st, key2, TRUE)
      v == [kind |-> "q_hat", R1 |-> r1.val, R2 |-> r2.val, x1 |-> x1.val,
            x2 |-> x2.val, Ndlys |-> st.spw_Ndlys,
            fft |-> allow_fft /\ st.spw_Nfreqs = st.spw_Ndlys,
            beam |-> BeamTerm(st, exact_norm, pol)]
  IN IF ~Ok(r1) THEN r1
     ELSE IF ~Ok(x1) THEN Raise(r1.st, x1.err, r1.ev)
     ELSE IF Len(x1.val.chans) # Nfreq(st) THEN Raise(r1.st, "ValueError", r1.ev)
     ELSE IF ~Ok(r2) THEN r2
     ELSE IF ~Ok(x2) THEN Raise(r2.st, x2.err, r2.ev)
     ELSE IF Len(x2.val.chans) # Nfreq(st) THEN Raise(r2.st, "ValueError", r2.ev)
     ELSE IF exact_norm /\ allow_fft THEN Raise(r2.st, "NotImplementedError", r2.ev)
     ELSE Ret(r2.st, v, r2.ev \o <<Computed("q_hat")>>)

\* cross_covar_model(key2, key1, model): data of both keys for 'empirical',
\* zeros of the window's size for 'dsets'.
cross_covar_model(st, key1, key2, model) ==
  LET x1 == x(st, key1, TRUE)
      x2 == x(st, key2, TRUE)
      w1 == w(st, key1, TRUE)
      w2 == w(st, key2, TRUE)
  IN IF model \notin {"empirical", "dsets"} THEN Raise(st, "AssertionError", << >>)
     ELSE IF model = "dsets"
       THEN Ret(st, [kind |-> "zeros", n |-> st.spw_Nfreqs], << >>)
     ELSE IF ~Ok(x1) THEN x1
     ELSE IF ~Ok(x2) THEN x2
     ELSE IF Len(x1.val.chans) # Len(x2.val.chans) THEN Raise(st, "ValueError", << >>)
     ELSE Ret(st, [kind |-> "cross", x1 |-> x1.val, w1 |-> w1.val, x2 |-> x2.val,
                   w2 |-> w2.val, n |-> Len(x1.val.chans)], << >>)

\* get_unnormed_V(key1, key2, time_index, model, exact_norm, pol)
get_unnormed_V(st, key1, key2, time_index, model, exact_norm, pol) ==
  LET yc == YCols(st, key1, key2, time_index)
      Vkey == key1 \o key2
              \o <<pol, exact_norm, st.taper, st.spw_Ndlys, model, st.data_weighting>>
              \o yc.val
      re == After(yc.ev, get_unnormed_E(yc.st, key1, key2, time_index, exact_norm, pol))
      c1 == After(re.ev, C_model(re.st, key1, model, <<time_index>>))
      c2 == After(c1.ev, C_model(c1.st, key2, model, <<time_index>>))
      p21 == cross_covar_model(c2.st, key2, key1, model)
      vC == [kind |-> "V", model |-> model, E |-> re.val, C1 |-> c1.val,
             C2 |-> c2.val, P21 |-> p21.val]
      rq == After(yc.ev, q_hat(yc.st, key1, key2, FALSE, FALSE, FALSE))
      vQ == [kind |-> "V", model |-> model, q |-> rq.val]
  IN IF ~Ok(yc) THEN yc
     ELSE IF Has(yc.st._V, Vkey) THEN Ret(yc.st, yc.st._V[Vkey], yc.ev)
     ELSE IF model \in {"dsets", "empirical"}
       THEN IF ~Ok(re) THEN re
            ELSE IF ~Ok(c1) THEN c1
            ELSE IF ~Ok(c2) THEN c2
            ELSE IF ~Ok(p21) THEN Raise(c2.st, p21.err, c2.ev)
            ELSE IF \/ c1.val.n # Nfreq(st) \/ c2.val.n # Nfreq(st)
                    \/ p21.val.n # Nfreq(st)
              THEN Raise(c2.st, "ValueError", c2.ev)
            ELSE Ret([c2.st EXCEPT !._V = Put(c2.st._V, Vkey, vC)], vC,
                     c2.ev \o <<Computed("V")>>)
     ELSE IF model = "empirical_pspec"
       THEN IF ~Ok(rq) THEN rq
            ELSE Ret([rq.st EXCEPT !._V = Put(rq.st._V, Vkey, vQ)], vQ,
                     rq.ev \o <<Computed("V")>>)
     ELSE Raise(yc.st, "UnboundLocalError", yc.ev)

\* _get_M(key1, key2, time_index, mode, sampling, exact_norm, pol)
_get_M(st, key1, key2, time_index, mode, sampling, exact_norm, pol) ==
  LET yc == YCols(st, key1, key2, time_index)
      Mkey == <<key1, key2, mode, exact_norm, st.spw_Ndlys, st.taper,
                st.data_weighting>> \o yc.val
      rh == After(yc.ev, _get_H(yc.st, key1, key2, time_index,
                                IF mode = "H^-1" THEN FALSE ELSE sampling,
                                exact_norm, pol))
      rg == After(yc.ev, _get_G(yc.st, key1, key2, time_index, exact_norm, pol))
      rs == IF mode = "I" THEN rg ELSE rh
      v == [kind |-> "M", mode |-> mode, of |-> rs.val]
  IN IF mode \notin NormModes THEN Raise(st, "AssertionError", << >>)
     ELSE IF ~Ok(yc) THEN yc
     ELSE IF Has(yc.st._M, Mkey) THEN Ret(yc.st, yc.st._M[Mkey], yc.ev)
     ELSE IF mode # "I" /\ exact_norm THEN Raise(yc.st, "NotImplementedError", yc.ev)
     ELSE IF mode = "V^-1/2" THEN Raise(yc.st, "AttributeError", yc.ev)
     ELSE IF mode = "L^-1" THEN Raise(yc.st, "NotImplementedError", yc.ev)
     ELSE IF ~Ok(rs) THEN rs
     ELSE Ret([rs.st EXCEPT !._M = Put(rs.st._M, Mkey, v)], v,
              rs.ev \o <<Computed("M")>>)

RECURSIVE MEach(_, _, _, _, _, _, _, _)
MEach(st, key1, key2, time_indices, mode, sampling, exact_norm, pol) ==
  IF time_indices = << >> THEN Ret(st, << >>, << >>)
  ELSE LET r == _get_M(st, key1, key2, Head(time_indices), mode, sampling,
                       exact_norm, pol)
           rest == After(r.ev, MEach(r.st, key1, key2, Tail(time_indices), mode,
                                     sampling, exact_norm, pol))
       IN IF ~Ok(r) THEN r
          ELSE IF ~Ok(rest) THEN rest
          ELSE Ret(rest.st, <<r.val>> \o rest.val, rest.ev)

\* get_M(key1, key2, mode, sampling, exact_norm, pol, time_indices)
get_M(st, key1, key2, mode, sampling, exact_norm, pol, time_indices) ==
  LET r == MEach(st, key1, key2, time_indices, mode, sampling, exact_norm, pol)
  IN IF ~Ok(r) THEN r ELSE Ret(r.st, [kind |-> "stack", of |-> r.val], r.ev)

\* get_MW(G, H, mode, band_covar, exact_norm): M and W from the G and H
\* handed in; band_covar is << >> for None and <<V>> otherwise.
get_MW(st, G, H, mode, band_covar, exact_norm) ==
  IF mode \notin NormModes THEN Raise(st, "AssertionError", << >>)
  ELSE IF mode # "I" /\ exact_norm THEN Raise(st, "NotImplementedError", << >>)
  ELSE IF mode = "L^-1" THEN Raise(st, "NotImplementedError", << >>)
  ELSE IF mode = "V^-1/2" /\ band_covar = << >> THEN Raise(st, "ValueError", << >>)
  ELSE Ret(st, [M |-> [kind |-> "M", mode |-> mode,
                       of |-> IF mode = "I" THEN G ELSE H, V |-> band_covar],
                W |-> [kind |-> "W", mode |-> mode, G |-> G, H |-> H,
                       V |-> band_covar]],
           <<Computed("M"), Computed("W")>>)

\* ------------------------------------------------------------ flags
\* broadcast_dset_flags on one waterfall F with the extended window S:
\* channels flagged in more than time_thresh = 0.2 of the integrations that
\* are not fully flagged get flagged at all times; an integration with any
\* other flag inside S gets S flagged.
Contig(F) == {t \in Times : Cardinality(F[t]) = NFREQ}
ExceedsThresh(F) ==
  LET nc == Times \ Contig(F)
  IN {c \in Chans : nc # {} /\
        5 * Cardinality({t \in nc : c \in F[t]}) > Cardinality(nc)}
FlagInts(F, S) == {t \in Times : (F[t] \ ExceedsThresh(F)) \cap S # {}}
BroadcastWaterfall(F, S) ==
  [t \in Times |-> F[t] \cup ExceedsThresh(F)
                        \cup (IF t \in FlagInts(F, S) THEN S ELSE {})]
\* The first waterfall visited: polarization 0, lowest baseline.
FirstWaterfall == <<"A", "xx">>

\* The spectral windows of a list are applied in turn to one dataset.
RECURSIVE BroadcastSpws(_, _, _)
BroadcastSpws(st, p, spw_ranges) ==
  IF spw_ranges = << >> THEN Ret(st, "none", << >>)
  ELSE LET s1 == set_spw(st, Head(spw_ranges))
           sl == SpwSlice(s1, TRUE)
           ch == SliceChans(sl[1], sl[2])
           S == {ch[i] : i \in DOMAIN ch}
           fa == s1.flag_array[p]
           \* np.max over an empty slice raises, after the first waterfall's
           \* channels over the threshold have been written
           bad == [fa EXCEPT ![FirstWaterfall] =
                     [t \in Times |-> @[t] \cup ExceedsThresh(fa[FirstWaterfall])]]
           good == [bp \in DOMAIN fa |-> BroadcastWaterfall(fa[bp], S)]
           s2 == [s1 EXCEPT !.flag_array[p] = good]
           rest == BroadcastSpws(s2, p, Tail(spw_ranges))
       IN IF S = {}
            THEN Raise([s1 EXCEPT !.flag_array[p] = bad], "ValueError", <<FlagWrite(p)>>)
            ELSE After(<<FlagWrite(p)>>, rest)

\* The datasets dsets[i..] in turn; backup holds the flag arrays copied so far.
RECURSIVE BroadcastDsets(_, _, _, _)
BroadcastDsets(st, i, spw_ranges, backup) ==
  IF i > Len(st.dsets) THEN Ret(st, backup, << >>)
  ELSE LET p == st.dsets[i]
           r == BroadcastSpws(st, p, spw_ranges)
           rest == After(r.ev, BroadcastDsets(r.st, i + 1, spw_ranges,
                                              Append(backup, st.flag_array[p])))
       IN IF ~Ok(r) THEN r ELSE rest

\* broadcast_dset_flags(spw_ranges, time_thresh=0.2, unflag=False): returns
\* the flag arrays as they were.
broadcast_dset_flags(st, spw_ranges) ==
  BroadcastDsets(clear_cache(st, FALSE), 1, spw_ranges, << >>)

\* for dset, flag in zip(self.dsets, flag_backup): dset.flag_array = flag
RECURSIVE RestoreFlags(_, _, _)
RestoreFlags(st, i, backup) ==
  IF i > Len(st.dsets) THEN Ret(st, "none", << >>)
  ELSE After(<<FlagWrite(st.dsets[i])>>,
             RestoreFlags([st EXCEPT !.flag_array[st.dsets[i]] = backup[i]],
                          i + 1, backup))

RECURSIVE VEach(_, _, _, _, _, _, _)
VEach(st, key1, key2, time_indices, model, exact_norm, pol) ==
  IF time_indices = << >> THEN Ret(st, << >>, << >>)
  ELSE LET r == get_unnormed_V(st, key1, key2, Head(time_indices), model,
                               exact_norm, pol)
           rest == After(r.ev, VEach(r.st, key1, key2, Tail(time_indices), model,
                                     exact_norm, pol))
       IN IF ~Ok(r) THEN r
          ELSE IF ~Ok(rest) THEN rest
          ELSE Ret(rest.st, <<r.val>> \o rest.val, rest.ev)

\* cov_q_hat(key1, key2, model, exact_norm, pol, time_indices)
cov_q_hat(st, key1, key2, model, exact_norm, pol, time_indices) ==
  LET rv == VEach(st, key1, key2, time_indices, model, exact_norm, pol)
      rb == IF model = "empirical"
              THEN broadcast_dset_flags(st, <<st.spw_range>>)
              ELSE Ret(st, "none", << >>)
      vm == After(rb.ev, get_unnormed_V(rb.st, key1, key2, 0, model, exact_norm, pol))
      rr == IF model = "empirical"
              THEN After(vm.ev, RestoreFlags(vm.st, 1, rb.val))
              ELSE vm
      out(vs) == [kind |-> "cov_q_hat", of |-> vs]
  IN IF \E i \in DOMAIN time_indices :
          ~(time_indices[i] >= 0 /\ time_indices[i] <= NTIMES)
       THEN Raise(st, "ValueError", << >>)
     ELSE IF model = "dsets"
       THEN IF ~Ok(rv) THEN rv ELSE Ret(rv.st, out(rv.val), rv.ev)
     ELSE IF model \in {"empirical", "empirical_pspec"}
       THEN IF ~Ok(rb) THEN rb
            ELSE IF ~Ok(vm) THEN vm
            ELSE Ret(rr.st, out([i \in DOMAIN time_indices |-> vm.val]), rr.ev)
     ELSE Ret(st, out(<< >>), << >>)

\* ------------------------------------------------------------ pspec()
\* validate_pol(dsets, pol_pair)
validate_pol(st, ds, pol_pair) ==
  /\ pol_pair[1] \in DsetPols(st.dsets[PyIndex(Len(st.dsets), ds[1]) + 1])
  /\ pol_pair[2] \in DsetPols(st.dsets[PyIndex(Len(st.dsets), ds[2]) + 1])

\* scalar(polpair, taper_override, exact_norm): what the beam scalar is
\* computed from; the taper handed to the beam is self.taper.
scalar(st, polpair, taper_override, exact_norm) ==
  IF polpair[1] # polpair[2] THEN Raise(st, "NotImplementedError", << >>)
  ELSE IF ~st.primary_beam THEN Raise(st, "AttributeError", << >>)
  ELSE Ret(st, <<polpair[1], st.spw_range, st.taper, exact_norm>>, << >>)

\* The body of the baseline-pair loop for pair k of polarization pair j of
\* spectral window i; sc is the scalar of the polarization pair.  a is the
\* record of pspec()'s arguments.
PspecBlp(st, a, i, j, k, sc) ==
  LET key1 == <<a.dsets[1], a.bls[k][1], a.pols[j][1]>>
      key2 == <<a.dsets[2], a.bls[k][2], a.pols[j][2]>>
      pol == a.pols[j][1]
      w1 == w(st, key1, FALSE)
      w2 == w(st, key2, FALSE)
      rp == a.r_params[1]
      s1 == IF a.input_data_weight \in Dayenu
              THEN set_r_param(set_r_param(st, key1, rp[key1]), key2, rp[key2])
              ELSE st
      g == get_G(s1, key1, key2, a.exact_norm, pol, AllTimes)
      h == After(g.ev, get_H(g.st, key1, key2, a.sampling, a.exact_norm, pol, AllTimes))
      q == After(h.ev, q_hat(h.st, key1, key2, FALSE, a.exact_norm, pol))
      m == After(q.ev, get_M(q.st, key1, key2, a.norm, a.sampling, a.exact_norm,
                             pol, AllTimes))
      c == IF a.store_cov
             THEN After(m.ev, cov_q_hat(m.st, key1, key2, a.cov_model,
                                        a.exact_norm, pol, AllTimes))
             ELSE Ret(m.st, << >>, m.ev)
      pv == [kind |-> "p_hat", spw |-> i, polpair |-> a.pols[j], blpair |-> a.bls[k],
             M |-> m.val, q |-> q.val, scalar |-> sc,
             adjust |-> IF a.norm = "I" /\ ~a.exact_norm THEN <<g.val, h.val>> ELSE << >>,
             cov |-> IF a.store_cov THEN <<c.val>> ELSE << >>]
  IN IF ~Ok(w1) THEN w1
     ELSE IF ~Ok(w2) THEN w2
     ELSE IF a.input_data_weight \in Dayenu /\ a.r_params = << >>
       THEN Raise(st, "TypeError", << >>)
     ELSE IF a.input_data_weight \in Dayenu /\ ~(Has(rp, key1) /\ Has(rp, key2))
       THEN Raise(st, "ValueError", << >>)
     ELSE IF ~Ok(g) THEN g
     ELSE IF ~Ok(h) THEN h
     ELSE IF ~Ok(q) THEN q
     ELSE IF ~Ok(m) THEN m
     ELSE IF ~Ok(c) THEN c
     ELSE Ret(c.st, pv, c.ev)

\* The baseline pairs k.. of a polarization pair; the value is what pspec()
\* has collected: the spectra and the per-blpair metadata (blp_arr).
RECURSIVE PspecBlps(_, _, _, _, _, _, _)
PspecBlps(st, a, i, j, k, sc, acc) ==
  IF k > Len(a.bls) THEN Ret(st, acc, << >>)
  ELSE LET r == PspecBlp(st, a, i, j, k, sc)
           acc1 == [acc EXCEPT !.data = Append(@, r.val),
                               !.blp_arr = IF i < 2 /\ j < 2
                                             THEN Append(@, a.bls[k]) ELSE @]
       IN IF ~Ok(r) THEN r
          ELSE After(r.ev, PspecBlps(r.st, a, i, j, k + 1, sc, acc1))

\* The polarization pairs j.. of a spectral window.
RECURSIVE PspecPols(_, _, _, _, _)
PspecPols(st, a, i, j, acc) ==
  IF j > Len(a.pols) THEN Ret(st, acc, << >>)
  ELSE LET sc == IF st.primary_beam
                   THEN scalar(st, a.pols[j],
                               IF a.norm = "H^-1" THEN "none" ELSE "no_override",
                               a.exact_norm)
                   ELSE Ret(st, << >>, << >>)
           acc1 == [acc EXCEPT !.polpairs = Append(@, <<i, a.pols[j]>>)]
           r == PspecBlps(st, a, i, j, 1, sc.val, acc1)
       IN IF ~validate_pol(st, a.dsets, a.pols[j])
            THEN PspecPols(st, a, i, j + 1, acc)
          ELSE IF ~Ok(sc) THEN sc
          ELSE IF ~Ok(r) THEN r
          ELSE After(r.ev, PspecPols(r.st, a, i, j + 1, r.val))

\* The loop over spectral windows without the check that a polarization
\* pair was valid.
RECURSIVE PspecSpws_unchecked(_, _, _, _)
PspecSpws_unchecked(st, a, i, acc) ==
  IF i > Len(a.spw_ranges) THEN Ret(st, acc, << >>)
  ELSE LET s1 == set_filter_extension(set_spw(st, a.spw_ranges[i]),
                                      a.filter_extensions[i])
           n == set_Ndlys(s1, a.n_dlys[i])
           s2 == clear_cache(n.st, FALSE)
           r == PspecPols(s2, a, i, 1, acc)
       IN IF ~Ok(n) THEN n
          ELSE IF ~Ok(r) THEN r
          ELSE After(r.ev, PspecSpws_unchecked(r.st, a, i + 1, r.val))

\* The spectral windows i.. .
RECURSIVE PspecSpws(_, _, _, _)
PspecSpws(st, a, i, acc) ==
  IF i > Len(a.spw_ranges) THEN Ret(st, acc, << >>)
  ELSE LET s1 == set_filter_extension(set_spw(st, a.spw_ranges[i]),
                                      a.filter_extensions[i])
           n == set_Ndlys(s1, a.n_dlys[i])
           s2 == clear_cache(n.st, FALSE)
           r == PspecPols(s2, a, i, 1, acc)
       IN IF ~Ok(n) THEN n
          ELSE IF ~Ok(r) THEN r
          ELSE IF \A e \in DOMAIN r.val.polpairs : r.val.polpairs[e][1] # i
            THEN Raise(r.st, "ValueError", r.ev)
          ELSE After(r.ev, PspecSpws(r.st, a, i + 1, r.val))

\* pspec(bls1, bls2, dsets, pols, n_dlys, input_data_weight, norm, taper,
\*       sampling, exact_norm, spw_ranges, filter_extensions, store_cov,
\*       cov_model, r_params)
pspec(st, a) ==
  LET s1 == set_weighting(set_taper(st, a.taper), a.input_data_weight)
      r == PspecSpws(s1, a, 1, [data |-> << >>, blp_arr |-> << >>, polpairs |-> << >>])
  IN IF ~(PyIndexOK(Len(st.dsets), a.dsets[1]) /\ PyIndexOK(Len(st.dsets), a.dsets[2]))
       THEN Raise(s1, "IndexError", << >>)
     ELSE IF Len(a.spw_ranges) # Len(a.filter_extensions)
             \/ Len(a.spw_ranges) # Len(a.n_dlys)
       THEN Raise(s1, "AssertionError", << >>)
     ELSE IF ~Ok(r) THEN r
     ELSE Ret(r.st, [kind |-> "UVPSpec", data |-> r.val.data,
                     blp_arr |-> r.val.blp_arr, polpairs |-> r.val.polpairs], r.ev)

\* ------------------------------------------------------------ calls
\* A method call by name; args are the arguments in the order of the
\* operators above.
Apply(st, op, args) ==
  CASE op = "x" -> x(st, args[1], args[2])
    [] op = "dx" -> dx(st, args[1], args[2])
    [] op = "w" -> w(st, args[1], args[2])
    [] op = "I" -> I(st, args[1])
    [] op = "Y" -> Y(st, args[1])
    [] op = "iC" -> iC(st, args[1], args[2])
    [] op = "R" -> R(st, args[1])
    [] op = "get_G" -> get_G(st, args[1], args[2], args[3], args[4], args[5])
    [] op = "get_H" -> get_H(st, args[1], args[2], args[3], args[4], args[5], args[6])
    [] op = "get_M" ->
         get_M(st, args[1], args[2], args[3], args[4], args[5], args[6], args[7])
    [] op = "get_unnormed_V" ->
         get_unnormed_V(st, args[1], args[2], args[3], args[4], args[5], args[6])
    [] op = "q_hat" -> q_hat(st, args[1], args[2], args[3], args[4], args[5])
    [] op = "cov_q_hat" ->
         cov_q_hat(st, args[1], args[2], args[3], args[4], args[5], args[6])
    [] op = "broadcast_dset_flags" -> broadcast_dset_flags(st, args[1])
    [] op = "get_MW" -> get_MW(st, args[1], args[2], args[3], args[4], args[5])
    [] op = "scalar" -> scalar(st, args[1], args[2], args[3])
    [] op = "pspec" -> pspec(st, args[1])
    [] op = "set_spw" -> Ret(set_spw(st, args[1]), "none", << >>)
    [] op = "set_filter_extension" ->
         Ret(set_filter_extension(st, args[1]), "none", << >>)
    [] op = "set_Ndlys" -> set_Ndlys(st, args[1])
    [] op = "set_weighting" -> Ret(set_weighting(st, args[1]), "none", << >>)
    [] op = "set_taper" -> Ret(set_taper(st, args[1]), "none", << >>)
    [] op = "set_r_param" -> Ret(set_r_param(st, args[1], args[2]), "none", << >>)
    [] op = "clear_cache" -> Ret(clear_cache(st, args[1]), "none", << >>)
    [] op = "clear_cache_keys" ->
         Ret(clear_cache_keys(st, args[1], args[2]), "none", << >>)
    [] op = "add" -> Ret(add(st, args[1]), "none", << >>)

\* A call op(args) made on the object came to r: the object moves to the
\* state the call leaves, and the call and its outcome are recorded.
Outcome(op, args, r) ==
  /\ Commit(r.st)
  /\ last' = [op |-> op, args |-> args, err |-> r.err, val |-> r.val, ev |-> r.ev,
              rep |-> last.op = op /\ last.args = args /\ last.err = "none"]
  /\ ncalls' = ncalls + 1
  /\ UNCHANGED <<psc, uvp>>

\* PSpecData(dsets=[uvd0, uvd1], wgts=[None, None], beam=...): __init__
\* followed by add.
Init ==
  /\ dsets = <<0, 1>>
  /\ flag_array \in {FlagArray0, FlagArray1}
  /\ primary_beam \in BOOLEAN
  /\ spw_range = <<0, NFREQ>>
  /\ spw_Nfreqs = NFREQ
  /\ spw_Ndlys = NFREQ
  /\ filter_extension = <<0, 0>>
  /\ data_weighting = "identity"
  /\ taper = "none"
  /\ r_params = EmptyDict
  /\ _C = EmptyDict /\ _I = EmptyDict /\ _iC = EmptyDict /\ _Y = EmptyDict
  /\ _R = EmptyDict /\ _G = EmptyDict /\ _H = EmptyDict /\ _M = EmptyDict
  /\ _W = EmptyDict /\ _E = EmptyDict /\ _V = EmptyDict
  /\ last = [op |-> "__init__", args |-> << >>, err |-> "none", val |-> "none",
             ev |-> << >>, rep |-> FALSE]
  /\ ncalls = 0
  /\ psc = "none"
  /\ uvp = "none"

\* --- setters
AddStep(op, args, Method(_)) ==
  ncalls < MaxCalls /\ Outcome(op, args, Method(Self))
Add ==
  \E p \in Pool : AddStep("add", <<p>>, LAMBDA st : Apply(st, "add", <<p>>))
SetSpwStep(op, args, Method(_)) ==
  ncalls < MaxCalls /\ Outcome(op, args, Method(Self))
SetSpw ==
  \E spw \in SpwRanges : SetSpwStep("set_spw", <<spw>>,
                                    LAMBDA st : Apply(st, "set_spw", <<spw>>))
SetFilterExtensionStep(op, args, Method(_)) ==
  ncalls < MaxCalls /\ Outcome(op, args, Method(Self))
SetFilterExtension ==
  \E e \in FilterExtensions :
    SetFilterExtensionStep("set_filter_extension", <<e>>,
                           LAMBDA st : Apply(st, "set_filter_extension", <<e>>))
SetNdlysStep(op, args, Method(_)) ==
  ncalls < MaxCalls /\ Outcome(op, args, Method(Self))
SetNdlys ==
  \E n \in NdlysArgs \cup {-1} : SetNdlysStep("set_Ndlys", <<n>>,
                                              LAMBDA st : Apply(st, "set_Ndlys", <<n>>))
SetWeightingStep(op, args, Method(_)) ==
  ncalls < MaxCalls /\ Outcome(op, args, Method(Self))
SetWeighting ==
  \E wt \in Weightings : SetWeightingStep("set_weighting", <<wt>>,
                                          LAMBDA st : Apply(st, "set_weighting", <<wt>>))
SetTaperStep(op, args, Method(_)) ==
  ncalls < MaxCalls /\ Outcome(op, args, Method(Self))
SetTaper ==
  \E tp \in Tapers : SetTaperStep("set_taper", <<tp>>,
                                  LAMBDA st : Apply(st, "set_taper", <<tp>>))
SetRParamStep(op, args, Method(_)) ==
  ncalls < MaxCalls /\ Outcome(op, args, Method(Self))
SetRParam ==
  \E k \in AccKeys, v \in RParamVals :
    SetRParamStep("set_r_param", <<k, v>>,
                  LAMBDA st : Apply(st, "set_r_param", <<k, v>>))
ClearCacheStep(op, args, Method(_)) ==
  ncalls < MaxCalls /\ Outcome(op, args, Method(Self))
ClearCache == ClearCacheStep("clear_cache", <<FALSE>>,
                             LAMBDA st : Apply(st, "clear_cache", <<FALSE>>))

\* --- accessors
CallIStep(op, args, Method(_)) ==
  ncalls < MaxCalls /\ Outcome(op, args, Method(Self))
CallI ==
  \E k \in AccKeys : CallIStep("I", <<k>>, LAMBDA st : Apply(st, "I", <<k>>))
CallYStep(op, args, Method(_)) ==
  ncalls < MaxCalls /\ Outcome(op, args, Method(Self))
CallY ==
  \E k \in AccKeys : CallYStep("Y", <<k>>, LAMBDA st : Apply(st, "Y", <<k>>))
CallICStep(op, args, Method(_)) ==
  ncalls < MaxCalls /\ Outcome(op, args, Method(Self))
CallIC ==
  \E k \in AccKeys : CallICStep("iC", <<k, "empirical">>,
                                LAMBDA st : Apply(st, "iC", <<k, "empirical">>))
CallRStep(op, args, Method(_)) ==
  ncalls < MaxCalls /\ Outcome(op, args, Method(Self))
CallR ==
  \E k \in AccKeys : CallRStep("R", <<k>>, LAMBDA st : Apply(st, "R", <<k>>))
CallGetGStep(op, args, Method(_)) ==
  ncalls < MaxCalls /\ Outcome(op, args, Method(Self))
CallGetG ==
  \E e \in BOOLEAN :
    CallGetGStep("get_G", <<K0, K1, e, "xx", AllTimes>>,
                 LAMBDA st : Apply(st, "get_G", <<K0, K1, e, "xx", AllTimes>>))
CallGetHStep(op, args, Method(_)) ==
  ncalls < MaxCalls /\ Outcome(op, args, Method(Self))
CallGetH ==
  \E sm \in BOOLEAN :
    CallGetHStep("get_H", <<K0, K1, sm, FALSE, "xx", AllTimes>>,
                 LAMBDA st : Apply(st, "get_H", <<K0, K1, sm, FALSE, "xx", AllTimes>>))
CallGetMStep(op, args, Method(_)) ==
  ncalls < MaxCalls /\ Outcome(op, args, Method(Self))
CallGetM ==
  \E m \in NormModes, e \in BOOLEAN, ts \in {AllTimes, << >>} :
    CallGetMStep("get_M", <<K0, K1, m, FALSE, e, "xx", ts>>,
                 LAMBDA st : Apply(st, "get_M", <<K0, K1, m, FALSE, e, "xx", ts>>))
CallGetUnnormedVStep(op, args, Method(_)) ==
  ncalls < MaxCalls /\ Outcome(op, args, Method(Self))
CallGetUnnormedV ==
  \E m \in CovModels :
    CallGetUnnormedVStep("get_unnormed_V", <<K0, K1, 0, m, FALSE, "xx">>,
                         LAMBDA st : Apply(st, "get_unnormed_V", <<K0, K1, 0, m, FALSE, "xx">>))

\* --- flags
\* The caller writes a dataset's flag array.
CallerSetsFlags ==
  /\ ncalls < MaxCalls
  /\ \E fa \in {FlagArray0, FlagArray1} :
       /\ fa # flag_array
       /\ flag_array' = fa
       /\ last' = [op |-> "flags", args |-> << >>, err |-> "none", val |-> "none",
                   ev |-> << >>, rep |-> FALSE]
  /\ ncalls' = ncalls + 1
  /\ UNCHANGED <<dsets, primary_beam, spw_range, spw_Nfreqs, spw_Ndlys,
                 filter_extension, data_weighting, taper, r_params,
                 _C, _I, _iC, _Y, _R, _G, _H, _M, _W, _E, _V, psc, uvp>>
\* broadcast_dset_flags(spw_ranges=[spw]) for the window spw that is set.
CallBroadcastStep(op, spw, Method(_)) ==
  /\ ncalls < MaxCalls
  /\ spw = spw_range
  /\ Outcome(op, <<<<spw>>>>, Method(Self))
CallBroadcast ==
  \E spw \in SpwRanges :
    CallBroadcastStep("broadcast_dset_flags", spw,
                      LAMBDA st : Apply(st, "broadcast_dset_flags", <<<<spw>>>>))
CallCovQHatStep(op, args, Method(_)) ==
  ncalls < MaxCalls /\ Outcome(op, args, Method(Self))
CallCovQHat ==
  \E m \in CovModels :
    CallCovQHatStep("cov_q_hat", <<K0, K1, m, FALSE, "xx", AllTimes>>,
                    LAMBDA st : Apply(st, "cov_q_hat", <<K0, K1, m, FALSE, "xx", AllTimes>>))

\* The configuration and the cached accessors.
Next ==
  \/ SetSpw \/ SetFilterExtension \/ SetNdlys \/ SetWeighting \/ SetTaper
  \/ SetRParam \/ CallI \/ CallY \/ CallIC \/ CallR \/ CallGetG \/ CallGetH
  \/ CallGetM
Spec == Init /\ [][Next]_vars

\* The spectral window alone.
NextSpw == Add \/ SetSpw \/ SetNdlys \/ SetFilterExtension
SpecSpw == Init /\ [][NextSpw]_vars

\* Flag changes and the accessors that depend on flags.
NextFlags ==
  \/ CallerSetsFlags \/ CallBroadcast \/ CallCovQHat \/ ClearCache
  \/ CallY \/ CallR \/ CallGetG \/ CallGetH \/ CallGetM \/ CallGetUnnormedV
SpecFlags == Init /\ [][NextFlags]_vars

\* --- pspec() and the normalization
\* r_params dictionaries handed to pspec(): for both baselines, for
\* baseline A alone, and empty.
RParamsAB == [k \in {<<0, "A", "xx">>, <<1, "A", "xx">>, <<0, "B", "xx">>,
                     <<1, "B", "xx">>} |-> "p1"]
RParamsA == [k \in {<<0, "A", "xx">>, <<1, "A", "xx">>} |-> "p1"]
\* pspec([A], [A], dsets=(0, 1), pols=('xx', 'xx')) with the defaults of the
\* other arguments.
PspecDefaults ==
  [dsets |-> <<0, 1>>, bls |-> <<<<"A", "A">>>>, pols |-> <<<<"xx", "xx">>>>,
   n_dlys |-> <<-1>>, input_data_weight |-> "identity", norm |-> "I",
   taper |-> "none", sampling |-> FALSE, exact_norm |-> FALSE,
   spw_ranges |-> <<<<0, NFREQ>>>>, filter_extensions |-> <<<<0, 0>>>>,
   store_cov |-> FALSE, cov_model |-> "empirical", r_params |-> << >>]
BlsArgs == {<<<<"A", "A">>>>, <<<<"A", "A">>, <<"B", "B">>>>}
\* The calls of pspec() made: each family varies some arguments.
CovArgs ==
  {[PspecDefaults EXCEPT !.store_cov = sc, !.cov_model = cm] :
     sc \in BOOLEAN, cm \in CovModels}
RParamArgs ==
  {[PspecDefaults EXCEPT !.input_data_weight = wt, !.r_params = rp, !.bls = b] :
     wt \in Weightings, rp \in {<< >>, <<EmptyDict>>, <<RParamsA>>, <<RParamsAB>>},
     b \in BlsArgs}
PolArgs ==
  {[PspecDefaults EXCEPT !.pols = pp, !.dsets = ds] :
     pp \in {<< >>, <<<<"yy", "yy">>>>, <<<<"xx", "yy">>>>, <<<<"xx", "xx">>>>,
             <<<<"yy", "yy">>, <<"xx", "xx">>>>, <<<<"yy", "yy">>, <<"xx", "yy">>>>},
     ds \in {<<0, 1>>, <<0, 0>>, <<1, 1>>}}
NormArgs ==
  {[PspecDefaults EXCEPT !.norm = nm, !.exact_norm = e, !.spw_ranges = sr,
                         !.filter_extensions = [i \in DOMAIN sr |-> <<0, 0>>],
                         !.n_dlys = [i \in DOMAIN sr |-> -1]] :
     nm \in NormModes, e \in BOOLEAN, sr \in {<<<<0, 1>>, <<1, NFREQ>>>>}}
PspecStep(op, args, Method(_)) ==
  ncalls < MaxCalls /\ Outcome(op, args, Method(Self))
Pspec(argsets) ==
  \E a \in argsets : PspecStep("pspec", <<a>>,
                               LAMBDA st : Apply(st, "pspec", <<a>>))
CallGetMWStep(op, args, Method(_)) ==
  ncalls < MaxCalls /\ Outcome(op, args, Method(Self))
CallGetMW ==
  \E m \in NormModes, e \in BOOLEAN :
    CallGetMWStep("get_MW", <<"G", "H", m, << >>, e>>,
                  LAMBDA st : Apply(st, "get_MW", <<"G", "H", m, << >>, e>>))

\* pspec() with and without covariances, on flags the caller may change.
NextCov == Pspec(CovArgs) \/ CallerSetsFlags
SpecCov == Init /\ [][NextCov]_vars

\* pspec() with filter parameters given, partly given or missing.
NextRParams == Pspec(RParamArgs) \/ ClearCache
SpecRParams == Init /\ [][NextRParams]_vars

\* pspec() with polarization pairs the datasets have or lack.
NextPol == Pspec(PolArgs) \/ Add
SpecPol == Init /\ [][NextPol]_vars

\* The normalization modes, through pspec(), get_M and get_MW.
NextNorm == Pspec(NormArgs) \/ CallGetM \/ CallGetMW
SpecNorm == Init /\ [][NextNorm]_vars

\* Calling the cached accessors again and again.
RepeatYStep(op, args, Method(_)) ==
  ncalls < MaxCalls /\ Outcome(op, args, Method(Self))
RepeatY == RepeatYStep("Y", <<K0>>, LAMBDA st : Apply(st, "Y", <<K0>>))
RepeatRStep(op, args, Method(_)) ==
  ncalls < MaxCalls /\ Outcome(op, args, Method(Self))
RepeatR == RepeatRStep("R", <<K0>>, LAMBDA st : Apply(st, "R", <<K0>>))
RepeatICStep(op, args, Method(_)) ==
  ncalls < MaxCalls /\ Outcome(op, args, Method(Self))
RepeatIC == RepeatICStep("iC", <<K0, "empirical">>,
                         LAMBDA st : Apply(st, "iC", <<K0, "empirical">>))
RepeatGetGStep(op, args, Method(_)) ==
  ncalls < MaxCalls /\ Outcome(op, args, Method(Self))
RepeatGetG == RepeatGetGStep("get_G", <<K0, K1, FALSE, "xx", AllTimes>>,
                             LAMBDA st : Apply(st, "get_G", <<K0, K1, FALSE, "xx", AllTimes>>))
RepeatGetHStep(op, args, Method(_)) ==
  ncalls < MaxCalls /\ Outcome(op, args, Method(Self))
RepeatGetH == RepeatGetHStep("get_H", <<K0, K1, FALSE, FALSE, "xx", AllTimes>>,
                             LAMBDA st : Apply(st, "get_H", <<K0, K1, FALSE, FALSE, "xx", AllTimes>>))
RepeatGetMStep(op, args, Method(_)) ==
  ncalls < MaxCalls /\ Outcome(op, args, Method(Self))
RepeatGetM ==
  \E m \in {"I", "H^-1"} :
    RepeatGetMStep("get_M", <<K0, K1, m, FALSE, FALSE, "xx", AllTimes>>,
                   LAMBDA st : Apply(st, "get_M", <<K0, K1, m, FALSE, FALSE, "xx", AllTimes>>))
NextIdem ==
  \/ SetSpw \/ SetWeighting \/ CallerSetsFlags
  \/ RepeatY \/ RepeatR \/ RepeatIC \/ RepeatGetG \/ RepeatGetH \/ RepeatGetM
SpecIdem == Init /\ [][NextIdem]_vars

\* ------------------------------------------------------------ claims
CachesEmpty ==
  /\ _C = EmptyDict /\ _I = EmptyDict /\ _iC = EmptyDict /\ _Y = EmptyDict
  /\ _R = EmptyDict /\ _G = EmptyDict /\ _H = EmptyDict /\ _M = EmptyDict
  /\ _W = EmptyDict /\ _E = EmptyDict /\ _V = EmptyDict

\* What the last call would have returned had every cache been empty.
Fresh == Apply(clear_cache(Self, FALSE), last.op, last.args)

\* C1: every set_spw that changes the spectral window leaves all the matrix
\* caches (C, I, iC, Y, R, G, H, M, W, E, V) empty.
C1_SetSpwEmptiesCaches ==
  [][(last'.op = "set_spw" /\ ncalls' = ncalls + 1 /\ spw_range' # spw_range)
       => CachesEmpty']_vars

\* C2: through any sequence of set_spw, set_filter_extension, set_Ndlys,
\* set_weighting, set_taper, set_r_param and calls of I, Y, R, iC, get_G,
\* get_H, get_M, a matrix an accessor returns is the matrix of the current
\* spectral window, extension, Ndlys, weighting, taper and filter parameters:
\* the one it would compute now from empty caches.
C2_ReturnedMatrixIsCurrent ==
  (last.op \in {"I", "Y", "R", "iC", "get_G", "get_H", "get_M"} /\ last.err = "none")
    => (Fresh.err = "none" /\ Fresh.val = last.val)

\* C3: after any change of a dataset's flags (by broadcast_dset_flags, by
\* cov_q_hat restoring its backup, or by the caller), what Y, R, get_G,
\* get_H, get_M and get_unnormed_V return is derived from the flags as they
\* are now, cache cleared or not.
C3_ReturnedMatrixUsesCurrentFlags ==
  (last.op \in {"Y", "R", "get_G", "get_H", "get_M", "get_unnormed_V"}
     /\ last.err = "none")
    => (Fresh.err = "none" /\ Fresh.val = last.val)

\* C4: a cached accessor (get_G, get_H, R, iC, Y, get_M) called twice in a
\* row with the same arguments returns the same matrix the second time, and
\* computes nothing the second time.
C4_SecondCallIsCacheHit ==
  [][(/\ ncalls' = ncalls + 1
      /\ last'.op \in {"get_G", "get_H", "R", "iC", "Y", "get_M"}
      /\ last.op = last'.op
      /\ last.args = last'.args
      /\ last.err = "none")
       => (/\ last'.err = "none"
           /\ last'.val = last.val
           /\ last'.ev = << >>)]_vars
\* get_G was called twice in a row on a window where it returns.
C4_Witness == last.rep /\ last.op = "get_G" /\ last.err = "none"

\* Spectral-window and filter-extension setters alone.
NextExt == SetSpw \/ SetFilterExtension
SpecExt == Init /\ [][NextExt]_vars

\* The matrices pspec() estimates with.
Estimates == {"G", "H", "q_hat", "M"}
\* The keys pspec(a) looks filter parameters up for: both keys of every
\* baseline pair, for every polarization pair.
RequestedKeys(a) ==
  UNION {{<<a.dsets[1], a.bls[k][1], a.pols[j][1]>>,
          <<a.dsets[2], a.bls[k][2], a.pols[j][2]>>} :
           k \in DOMAIN a.bls, j \in DOMAIN a.pols}
RParamsMissing(a) ==
  \/ a.r_params = << >>
  \/ \E k \in RequestedKeys(a) : ~Has(a.r_params[1], k)
NoValidPol(a) == \A j \in DOMAIN a.pols : ~validate_pol(Self, a.dsets, a.pols[j])

\* C5: from the first matrix computation of a pspec() call until the call
\* returns or raises, no dataset's flag array is written, whatever store_cov
\* and cov_model.
C5_NoFlagWriteOnceEstimating ==
  last.op = "pspec" =>
    \A m, n \in DOMAIN last.ev :
      (m < n /\ last.ev[m][1] = "compute") => last.ev[n][1] # "flag_write"

\* C6: in every state reached by add, set_spw and set_Ndlys calls, raising
\* ones included, spw_Ndlys is at most spw_Nfreqs.
C6_NdlysWithinWindow == spw_Ndlys <= spw_Nfreqs

\* C7: in every state reached by set_spw and set_filter_extension calls the
\* low extension is at most spw_range[0] and the high extension at most
\* Nfreqs - spw_range[1], and set_filter_extension clips instead of raising.
C7_ExtensionWithinBand ==
  /\ filter_extension[1] <= spw_range[1]
  /\ filter_extension[2] <= NFREQ - spw_range[2]
  /\ last.op = "set_filter_extension" => last.err = "none"

\* C8: a pspec() call whose weighting is neither 'identity' nor 'iC' and
\* whose r_params lack a requested baseline key raises, and has computed no
\* G, H, q_hat or M for any baseline pair when it does.
C8_MissingRParamsRaiseFirst ==
  (/\ last.op = "pspec"
   /\ last.args[1].input_data_weight \notin {"identity", "iC"}
   /\ RParamsMissing(last.args[1]))
    => (last.err # "none" /\ ComputedKinds(last.ev) \cap Estimates = {})

\* C9: a pspec() call none of whose polarization pairs is valid for the two
\* datasets raises, returns nothing, and has computed no G, H, q_hat or M.
C9_NoValidPolRaises ==
  (last.op = "pspec" /\ NoValidPol(last.args[1]))
    => (/\ last.err # "none"
        /\ last.val = "none"
        /\ ComputedKinds(last.ev) \cap Estimates = {})
\* pspec() was called with polarization pairs, none of them valid, and
\* raised the error of the missing polarizations.
C9_Witness ==
  /\ last.op = "pspec"
  /\ last.args[1].pols # << >>
  /\ NoValidPol(last.args[1])
  /\ last.err = "ValueError"

\* C10: exact_norm=True with a normalization mode other than 'I', asked of
\* pspec, get_MW or get_M, always ends in an error, and no M matrix of that
\* combination is in the cache.
ExactNonI ==
  \/ last.op = "pspec" /\ last.args[1].exact_norm /\ last.args[1].norm # "I"
  \/ last.op = "get_M" /\ last.args[5] /\ last.args[3] # "I"
  \/ last.op = "get_MW" /\ last.args[5] /\ last.args[3] # "I"
C10_ExactNormOnlyWithI ==
  /\ ExactNonI => (last.err # "none" /\ last.val = "none")
  /\ \A k \in DOMAIN _M : ~(k[4] /\ k[3] # "I")

\* ------------------------------------------------------------ q_hat
CallQHatStep(op, args, Method(_)) ==
  ncalls < MaxCalls /\ Outcome(op, args, Method(Self))
CallQHat ==
  \E f \in BOOLEAN, e \in BOOLEAN :
    CallQHatStep("q_hat", <<K0, K1, f, e, "xx">>,
                 LAMBDA st : Apply(st, "q_hat", <<K0, K1, f, e, "xx">>))
NextQHat == SetSpw \/ SetNdlys \/ SetWeighting \/ SetFilterExtension \/ CallQHat
SpecQHat == Init /\ [][NextQHat]_vars

\* R(key) x(key) can be formed for both keys of a q_hat call.
RxFormed(st, key1, key2) ==
  LET r1 == R(st, key1)
      r2 == R(r1.st, key2)
      x1 == x(st, key1, TRUE)
      x2 == x(st, key2, TRUE)
  IN /\ Ok(r1) /\ Ok(r2) /\ Ok(x1) /\ Ok(x2)
     /\ Len(x1.val.chans) = Nfreq(st) /\ Len(x2.val.chans) = Nfreq(st)

\* C11: q_hat with exact_norm and allow_fft raises NotImplementedError once
\* R x is formed for both keys, and a q_hat that returns was not produced by
\* the FFT branch when spw_Ndlys differs from spw_Nfreqs or exact_norm is set.
C11_NoFFTShortcut ==
  [][(last'.op = "q_hat" /\ ncalls' = ncalls + 1) =>
       LET a == last'.args
       IN /\ (a[3] /\ a[4] /\ RxFormed(Self, a[1], a[2]))
               => last'.err = "NotImplementedError"
          /\ (last'.err = "none" /\ (spw_Ndlys # spw_Nfreqs \/ a[4]))
               => ~last'.val.fft]_vars
\* q_hat(allow_fft=True) returned with spw_Ndlys different from spw_Nfreqs.
C11_Witness ==
  /\ last.op = "q_hat" /\ last.args[3] /\ last.err = "none"
  /\ spw_Ndlys # spw_Nfreqs /\ ~last.val.fft

\* C12: get_M with mode 'V^-1/2' and exact_norm False returns.
C12_VHalfNeverAborts ==
  (last.op = "get_M" /\ last.args[3] = "V^-1/2" /\ ~last.args[5])
    => last.err = "none"

\* C13: no matrix of a stack returned by get_G or get_H is all zero, and no
\* mode-'I' matrix returned by get_M is built on an all-zero G.
C13_NoAllZeroFisher ==
  /\ (last.op \in {"get_G", "get_H"} /\ last.err = "none" /\ last.val.kind = "stack")
       => \A i \in DOMAIN last.val.of : ~AllZero(last.val.of[i])
  /\ (last.op = "get_M" /\ last.err = "none" /\ last.args[3] = "I")
       => \A i \in DOMAIN last.val.of : ~AllZero(last.val.of[i].of)

\* ------------------------------------------------------------ x, dx, w
\* Keys the data accessors are called with: the two keys of the collection,
\* dataset indices below 0 and past the end, a baseline and a polarization
\* the dataset does not hold.
LookupKeys ==
  {K0, K1, <<-1, "A", "xx">>, <<-3, "A", "xx">>, <<2, "A", "xx">>,
   <<0, "C", "xx">>, <<1, "A", "yy">>}
CallXStep(op, args, Method(_)) ==
  ncalls < MaxCalls /\ Outcome(op, args, Method(Self))
CallX ==
  \E k \in LookupKeys, e \in BOOLEAN :
    CallXStep("x", <<k, e>>, LAMBDA st : Apply(st, "x", <<k, e>>))
CallDxStep(op, args, Method(_)) ==
  ncalls < MaxCalls /\ Outcome(op, args, Method(Self))
CallDx ==
  \E k \in LookupKeys, e \in BOOLEAN :
    CallDxStep("dx", <<k, e>>, LAMBDA st : Apply(st, "dx", <<k, e>>))
CallWStep(op, args, Method(_)) ==
  ncalls < MaxCalls /\ Outcome(op, args, Method(Self))
CallW ==
  \E k \in LookupKeys, e \in BOOLEAN :
    CallWStep("w", <<k, e>>, LAMBDA st : Apply(st, "w", <<k, e>>))
NextAcc == Add \/ SetSpw \/ CallX \/ CallDx \/ CallW
SpecAcc == Init /\ [][NextAcc]_vars

\* The key names a dataset index of the collection (0 .. Ndsets-1) and a
\* baseline and polarization that dataset holds.
KeyExists(key) ==
  /\ key[1] \in 0 .. (Len(dsets) - 1)
  /\ <<key[2], key[3]>> \in BlPols(dsets[key[1] + 1])

\* C14: x, dx and w raise for every key whose dataset index, baseline or
\* polarization does not exist in the collection.
C14_MissingKeyRaises ==
  (last.op \in {"x", "dx", "w"} /\ ~KeyExists(last.args[1])) => last.err # "none"

\* ------------------------------------------------------------ the delay adjustment
\* pspec() over one spectral window with and without fewer delay bins than
\* channels, for two normalizations, with and without exact_norm.
AdjustArgs ==
  {[PspecDefaults EXCEPT !.norm = nm, !.exact_norm = e, !.n_dlys = <<n>>,
                         !.taper = tp] :
     nm \in {"I", "H^-1"}, e \in BOOLEAN, n \in {-1, 1}, tp \in Tapers}
NextAdjust == Pspec(AdjustArgs)
SpecAdjust == Init /\ [][NextAdjust]_vars

\* C15: in the spectra pspec() returns, scalar_delay_adjustment was applied
\* exactly when spw_Ndlys differs from spw_Nfreqs and norm is 'I'.
C15_AdjustmentIffFewerDelays ==
  (last.op = "pspec" /\ last.err = "none") =>
    \A i \in DOMAIN last.val.data :
      (last.val.data[i].adjust # << >>)
        <=> (spw_Ndlys # spw_Nfreqs /\ last.args[1].norm = "I")

\* ------------------------------------------------------------ G and H
\* The entries of a stack of G or H matrices without the name of the method
\* that built them.
Entries(m) ==
  IF m.kind = "eye" THEN m
  ELSE [i \in DOMAIN m.of |->
          [R1 |-> m.of[i].R1, R2 |-> m.of[i].R2, t |-> m.of[i].t,
           Ndlys |-> m.of[i].Ndlys, beam |-> m.of[i].beam]]

\* C16: in every state and for every pair of keys, get_H(sampling=True,
\* exact_norm=False) returns what get_G(exact_norm=False) returns.
C16_SampledHIsG ==
  \A k1 \in AccKeys, k2 \in AccKeys :
    LET g == get_G(Self, k1, k2, FALSE, "xx", AllTimes)
        h == get_H(Self, k1, k2, TRUE, FALSE, "xx", AllTimes)
    IN /\ Ok(g) <=> Ok(h)
       /\ Ok(g) => Entries(g.val) = Entries(h.val)

\* ------------------------------------------------------------ clear_cache(keys)
ClearCacheKeysStep(op, args, Method(_)) ==
  ncalls < MaxCalls /\ Outcome(op, args, Method(Self))
ClearCacheKeys ==
  \E K \in {{K0}, {K0, K1}} :
    ClearCacheKeysStep("clear_cache_keys", <<FALSE, K>>,
                       LAMBDA st : Apply(st, "clear_cache_keys", <<FALSE, K>>))
NextClear == CallI \/ CallY \/ CallIC \/ CallR \/ CallGetG \/ ClearCacheKeys
SpecClear == Init /\ [][NextClear]_vars

\* The key k is one of the keys the cache key ck was built for: _I and _Y
\* store under the key itself, _C, _iC and _R under the key followed by
\* settings, _G, _H, _E and _V under key1 followed by key2 and settings, _M
\* and _W under a tuple that begins with key1 and key2.
OneKey(ck, k) == SubSeq(ck, 1, 3) = k
PairKey(ck, k) == SubSeq(ck, 1, 3) = k \/ SubSeq(ck, 4, 6) = k
TupleKey(ck, k) == ck[1] = k \/ ck[2] = k
\* The cache keys of the object st that were built for a key of K.
ForKeys(st, K) ==
  [_I |-> {ck \in DOMAIN st._I : ck \in K},
   _Y |-> {ck \in DOMAIN st._Y : ck \in K},
   _C |-> {ck \in DOMAIN st._C : \E k \in K : OneKey(ck, k)},
   _iC |-> {ck \in DOMAIN st._iC : \E k \in K : OneKey(ck, k)},
   _R |-> {ck \in DOMAIN st._R : \E k \in K : OneKey(ck, k)},
   _G |-> {ck \in DOMAIN st._G : \E k \in K : PairKey(ck, k)},
   _H |-> {ck \in DOMAIN st._H : \E k \in K : PairKey(ck, k)},
   _E |-> {ck \in DOMAIN st._E : \E k \in K : PairKey(ck, k)},
   _V |-> {ck \in DOMAIN st._V : \E k \in K : PairKey(ck, k)},
   _M |-> {ck \in DOMAIN st._M : \E k \in K : TupleKey(ck, k)},
   _W |-> {ck \in DOMAIN st._W : \E k \in K : TupleKey(ck, k)}]
\* The cache keys of the object st.
CacheKeys(st) ==
  [_I |-> DOMAIN st._I, _Y |-> DOMAIN st._Y, _C |-> DOMAIN st._C,
   _iC |-> DOMAIN st._iC, _R |-> DOMAIN st._R, _G |-> DOMAIN st._G,
   _H |-> DOMAIN st._H, _E |-> DOMAIN st._E, _V |-> DOMAIN st._V,
   _M |-> DOMAIN st._M, _W |-> DOMAIN st._W]
Caches == {"_I", "_Y", "_C", "_iC", "_R", "_G", "_H", "_E", "_V", "_M", "_W"}

\* C17: clear_cache(keys=K) leaves in every cache exactly the entries that
\* were not built for a key of K.
C17_ClearKeysEmptiesEveryCache ==
  [][(last'.op = "clear_cache_keys" /\ ncalls' = ncalls + 1) =>
       \A c \in Caches :
         CacheKeys(Self')[c] = CacheKeys(Self)[c] \ ForKeys(Self, last'.args[2])[c]]_vars

\* ------------------------------------------------------------ scalar
CallScalarStep(op, args, Method(_)) ==
  ncalls < MaxCalls /\ Outcome(op, args, Method(Self))
CallScalar ==
  \E t \in Tapers \cup {"no_override"} :
    CallScalarStep("scalar", <<<<"xx", "xx">>, t, FALSE>>,
                   LAMBDA st : Apply(st, "scalar", <<<<"xx", "xx">>, t, FALSE>>))
\* pspec() for two normalizations and every taper.
ScalarArgs ==
  {[PspecDefaults EXCEPT !.norm = nm, !.taper = tp] :
     nm \in {"I", "H^-1"}, tp \in Tapers}
NextScalar == SetTaper \/ CallScalar \/ Pspec(ScalarArgs)
SpecScalar == Init /\ [][NextScalar]_vars

\* C18: scalar(polpair, taper_override=t) computes the scalar for taper t
\* (for self.taper when t is 'no_override') and leaves self.taper as it was;
\* the spectra of pspec(norm='H^-1') carry the scalar for taper 'none'.
C18_ScalarUsesOverride ==
  [][LET r == last'
         called(op) == r.op = op /\ ncalls' = ncalls + 1 /\ r.err = "none"
         asked == IF r.args[2] = "no_override" THEN taper ELSE r.args[2]
     IN /\ called("scalar") => (taper' = taper /\ r.val[3] = asked)
        /\ (called("pspec") /\ r.args[1].norm = "H^-1" /\ primary_beam)
             => \A i \in DOMAIN r.val.data : r.val.data[i].scalar[3] = "none"]_vars

\* ------------------------------------------------------------ PSpecContainer
\* Group and power-spectrum names used in the calls.
GroupNames == {"g1", "g2"}
GroupOrder == <<"g1", "g2">>
PsNames == {"a", "b"}
\* The HDF5 file on disk: whether it exists, whether it holds the header
\* group, and the spectra names of each group.  No file, and a file written
\* earlier that holds the spectrum g1/a.
NoFile == [exists |-> FALSE, header |-> FALSE, groups |-> << >>]
WrittenFile == [exists |-> TRUE, header |-> TRUE, groups |-> [g \in {"g1"} |-> {"a"}]]
FileEv(what) == <<"file", what>>

\* _open(): nothing when the file is open; mode 'r' needs the file to exist,
\* mode 'rw' creates it and writes the header.
_open(c) ==
  IF c.data # "None" THEN Ret(c, "none", << >>)
  ELSE IF c.mode = "r" /\ ~c.disk.exists THEN Raise(c, "OSError", << >>)
  ELSE Ret([c EXCEPT !.data = "File", !.disk.exists = TRUE,
                     !.disk.header = @ \/ c.mode = "rw"],
           "none", <<FileEv("open")>>)

\* _close(): nothing when the file is closed.
_close(c) ==
  IF c.data = "None" THEN Ret(c, "none", << >>)
  ELSE Ret([c EXCEPT !.data = "None"], "none", <<FileEv("close")>>)

\* PSpecContainer(filename, mode, keep_open) for a file on disk.
PSpecContainer(disk, mode, keep_open) ==
  LET c == [keep_open |-> keep_open, mode |-> mode, data |-> "None", disk |-> disk]
  IN IF keep_open THEN _open(c) ELSE Ret(c, "none", << >>)

\* transactional, before fn runs: the file is opened unless keep_open.
transactional_open(c) ==
  IF ~c.keep_open THEN _open(c) ELSE Ret(c, "none", << >>)

\* transactional that closes the file only when fn returns.
transactional_leaks_on_error(r) ==
  IF r.st.keep_open \/ ~Ok(r) THEN r
  ELSE LET cl == _close(r.st) IN [r EXCEPT !.st = cl.st, !.ev = r.ev \o cl.ev]

\* transactional, after fn came to r (returned or raised): the file is closed
\* unless keep_open, and the result or the exception is passed on.
transactional(r) ==
  IF r.st.keep_open THEN r
  ELSE LET cl == _close(r.st) IN [r EXCEPT !.st = cl.st, !.ev = r.ev \o cl.ev]

\* The argument is a list (items holds its elements) or a single object
\* (items holds it alone).
Single(v) == [list |-> FALSE, items |-> <<v>>]
List(vs) == [list |-> TRUE, items |-> vs]

RECURSIVE set_pspec(_, _, _, _, _)
RECURSIVE set_pspec_each(_, _, _, _, _)
\* The loop of set_pspec over the (psname, uvps) pairs of two lists.
set_pspec_each(c, group, psnames, uvpss, overwrite) ==
  IF psnames = << >> THEN Ret(c, "none", << >>)
  ELSE IF Head(uvpss) # "UVPSpec" THEN Raise(c, "TypeError", << >>)
  ELSE LET r == set_pspec(c, group, Single(Head(psnames)), Single(Head(uvpss)),
                          overwrite)
       IN IF ~Ok(r) THEN r
          ELSE After(r.ev, set_pspec_each(r.st, group, Tail(psnames), Tail(uvpss),
                                          overwrite))

\* The body of set_pspec(group, psname, uvps, overwrite).
set_pspec_fn(c, group, psname, uvps, overwrite) ==
  LET made == IF group \in DOMAIN c.disk.groups THEN c.disk.groups
              ELSE Put(c.disk.groups, group, {})
      name == psname.items[1]
  IN IF c.mode = "r" THEN Raise(c, "IOError", << >>)
     ELSE IF psname.list
       THEN IF uvps.list /\ Len(uvps.items) = Len(psname.items)
              THEN set_pspec_each(c, group, psname.items, uvps.items, overwrite)
              ELSE Raise(c, "ValueError", << >>)
     ELSE IF uvps.list THEN Raise(c, "ValueError", << >>)
     ELSE IF uvps.items[1] # "UVPSpec" THEN Raise(c, "TypeError", << >>)
     ELSE IF c.data = "None" THEN Raise(c, "AttributeError", << >>)
     ELSE IF name \in made[group] /\ ~overwrite
       THEN Raise([c EXCEPT !.disk.groups = made], "AttributeError", << >>)
     ELSE Ret([c EXCEPT !.disk.groups = Put(made, group, made[group] \cup {name})],
              "none", << >>)

set_pspec(c, group, psname, uvps, overwrite) ==
  LET o == transactional_open(c)
  IN IF ~Ok(o) THEN o
     ELSE transactional(After(o.ev, set_pspec_fn(o.st, group, psname, uvps, overwrite)))

\* The body of get_pspec(group, psname); psname is "None" when not given.
get_pspec_fn(c, group, psname) ==
  IF c.data = "None" THEN Raise(c, "AttributeError", << >>)
  ELSE IF group \notin DOMAIN c.disk.groups THEN Raise(c, "KeyError", << >>)
  ELSE IF psname = "None" THEN Ret(c, c.disk.groups[group], << >>)
  ELSE IF psname \notin c.disk.groups[group] THEN Raise(c, "KeyError", << >>)
  ELSE Ret(c, {psname}, << >>)

get_pspec(c, group, psname) ==
  LET o == transactional_open(c)
  IN IF ~Ok(o) THEN o
     ELSE transactional(After(o.ev, get_pspec_fn(o.st, group, psname)))

\* The body of spectra(group).
spectra_fn(c, group) ==
  IF c.data = "None" THEN Raise(c, "AttributeError", << >>)
  ELSE IF group \notin DOMAIN c.disk.groups THEN Raise(c, "KeyError", << >>)
  ELSE Ret(c, c.disk.groups[group], << >>)

spectra(c, group) ==
  LET o == transactional_open(c)
  IN IF ~Ok(o) THEN o
     ELSE transactional(After(o.ev, spectra_fn(o.st, group)))

\* The body of groups(): the groups of the file without the header, in order.
groups_fn(c) ==
  IF c.data = "None" THEN Raise(c, "AttributeError", << >>)
  ELSE Ret(c, SelectSeq(GroupOrder, LAMBDA g : g \in DOMAIN c.disk.groups), << >>)

groups(c) ==
  LET o == transactional_open(c)
  IN IF ~Ok(o) THEN o
     ELSE transactional(After(o.ev, groups_fn(o.st)))

\* The loop of tree() over the groups: spectra(grp) for each.
RECURSIVE tree_each(_, _, _)
tree_each(c, grps, s) ==
  IF grps = << >> THEN Ret(c, s, << >>)
  ELSE LET r == spectra(c, Head(grps))
       IN IF ~Ok(r) THEN r
          ELSE After(r.ev, tree_each(r.st, Tail(grps),
                                     Append(s, <<Head(grps), r.val>>)))

\* The body of tree().
tree_fn(c) ==
  LET g == groups(c)
  IN IF ~Ok(g) THEN g ELSE After(g.ev, tree_each(g.st, g.val, << >>))

tree(c) ==
  LET o == transactional_open(c)
  IN IF ~Ok(o) THEN o
     ELSE transactional(After(o.ev, tree_fn(o.st)))

\* The body of save().
save_fn(c) ==
  IF c.data = "None" THEN Raise(c, "AttributeError", << >>)
  ELSE Ret(c, "none", << >>)

save(c) ==
  LET o == transactional_open(c)
  IN IF ~Ok(o) THEN o
     ELSE transactional(After(o.ev, save_fn(o.st)))

\* A call op(args) made on the container came to r.
ContainerOutcome(op, args, r) ==
  /\ psc' = r.st
  /\ last' = [op |-> op, args |-> args, err |-> r.err, val |-> r.val, ev |-> r.ev,
              rep |-> FALSE]
  /\ ncalls' = ncalls + 1
  /\ UNCHANGED <<objvars, uvp>>

\* The containers made: every mode and keep_open on both files, where the
\* constructor returns.
Containers ==
  {r.st : r \in {q \in {PSpecContainer(d, m, k) : d \in {NoFile, WrittenFile},
                                                  m \in {"r", "rw"}, k \in BOOLEAN} :
                   Ok(q)}}
InitContainer ==
  /\ dsets = <<0, 1>>
  /\ flag_array = FlagArray0
  /\ primary_beam = FALSE
  /\ spw_range = <<0, NFREQ>>
  /\ spw_Nfreqs = NFREQ
  /\ spw_Ndlys = NFREQ
  /\ filter_extension = <<0, 0>>
  /\ data_weighting = "identity"
  /\ taper = "none"
  /\ r_params = EmptyDict
  /\ _C = EmptyDict /\ _I = EmptyDict /\ _iC = EmptyDict /\ _Y = EmptyDict
  /\ _R = EmptyDict /\ _G = EmptyDict /\ _H = EmptyDict /\ _M = EmptyDict
  /\ _W = EmptyDict /\ _E = EmptyDict /\ _V = EmptyDict
  /\ last = [op |-> "__init__", args |-> << >>, err |-> "none", val |-> "none",
             ev |-> << >>, rep |-> FALSE]
  /\ ncalls = 0
  /\ psc \in Containers
  /\ uvp = "none"

\* The (psname, uvps) arguments of set_pspec: one spectrum, an object that
\* is not a UVPSpec, two lists, a list holding such an object, and a list of
\* names with a single spectrum.
SetPspecArgs ==
  {<<Single("a"), Single("UVPSpec")>>, <<Single("b"), Single("UVPSpec")>>,
   <<Single("a"), Single("other")>>,
   <<List(<<"a", "b">>), List(<<"UVPSpec", "UVPSpec">>)>>,
   <<List(<<"a", "b">>), List(<<"UVPSpec", "other">>)>>,
   <<List(<<"a", "b">>), Single("UVPSpec")>>}
SetPspecStep(op, args, Method(_)) ==
  ncalls < MaxCalls /\ ContainerOutcome(op, args, Method(psc))
SetPspec ==
  \E g \in GroupNames, a \in SetPspecArgs, ow \in BOOLEAN :
    SetPspecStep("set_pspec", <<g, a[1], a[2], ow>>,
                 LAMBDA c : set_pspec(c, g, a[1], a[2], ow))
GetPspecStep(op, args, Method(_)) ==
  ncalls < MaxCalls /\ ContainerOutcome(op, args, Method(psc))
GetPspec ==
  \E g \in GroupNames, n \in PsNames \cup {"None"} :
    GetPspecStep("get_pspec", <<g, n>>, LAMBDA c : get_pspec(c, g, n))
SpectraStep(op, args, Method(_)) ==
  ncalls < MaxCalls /\ ContainerOutcome(op, args, Method(psc))
Spectra ==
  \E g \in GroupNames : SpectraStep("spectra", <<g>>, LAMBDA c : spectra(c, g))
GroupsStep(op, args, Method(_)) ==
  ncalls < MaxCalls /\ ContainerOutcome(op, args, Method(psc))
Groups == GroupsStep("groups", << >>, LAMBDA c : groups(c))
TreeStep(op, args, Method(_)) ==
  ncalls < MaxCalls /\ ContainerOutcome(op, args, Method(psc))
Tree == TreeStep("tree", << >>, LAMBDA c : tree(c))
SaveStep(op, args, Method(_)) ==
  ncalls < MaxCalls /\ ContainerOutcome(op, args, Method(psc))
Save == SaveStep("save", << >>, LAMBDA c : save(c))
NextContainer == SetPspec \/ GetPspec \/ Spectra \/ Groups \/ Tree \/ Save
SpecContainer == InitContainer /\ [][NextContainer]_vars

\* C19: for a container made with keep_open=False the file is closed between
\* operations, and an operation that got the file open opened it first and
\* closed it last.
C19_ClosedBetweenOperations ==
  ~psc.keep_open =>
    /\ psc.data = "None"
    /\ (last.op # "__init__" /\ last.err # "OSError") =>
         /\ Head(last.ev) = FileEv("open")
         /\ last.ev[Len(last.ev)] = FileEv("close")
\* tree() ran on a container with keep_open=False and a group on file: the
\* nested groups() and spectra() each closed the file, and it ends closed.
C19_Witness ==
  /\ ~psc.keep_open /\ last.op = "tree" /\ last.err = "none"
  /\ Len(last.val) > 0 /\ Len(last.ev) > 2 /\ psc.data = "None"

\* ------------------------------------------------------------ UVPSpec.select
\* Baselines in integer form, and the factor that packs two of them into a
\* baseline-pair integer.
Bls == {1, 2, 3}
BlpairFactor == 1000000
\* antnums_to_blpair / the decoding at the head of _select.
Blpair(bl1, bl2) == bl1 * BlpairFactor + bl2
Bl1(blpair) == blpair \div BlpairFactor
Bl2(blpair) == blpair - Bl1(blpair) * BlpairFactor
\* The baseline-pairs a UVPSpec may hold, and the times of each.
BlpairPool == {Blpair(1, 1), Blpair(1, 2), Blpair(2, 2), Blpair(2, 3)}
RECURSIVE Blpairts(_)
\* blpair_array of an object holding the pairs ps: one entry per pair and
\* time, in increasing order of the pair.
Blpairts(ps) ==
  IF ps = {} THEN << >>
  ELSE LET p == CHOOSE q \in ps : \A o \in ps : q <= o
       IN [t \in 1 .. NTIMES |-> p] \o Blpairts(ps \ {p})
\* A UVPSpec holding the pairs ps: data_array[i] stands for the spectrum of
\* row i, named by the row it had when the object was made.
UVPSpec(ps) ==
  [blpair_array |-> Blpairts(ps),
   data_array |-> [i \in 1 .. (Cardinality(ps) * NTIMES) |-> i],
   bl_array |-> {Bl1(p) : p \in ps} \cup {Bl2(p) : p \in ps},
   Nbls |-> Cardinality({Bl1(p) : p \in ps} \cup {Bl2(p) : p \in ps}),
   Nblpairs |-> Cardinality(ps), Nblpairts |-> Cardinality(ps) * NTIMES]

\* The rows of a sequence picked by a boolean mask.
RECURSIVE Masked(_, _)
Masked(arr, mask) ==
  IF arr = << >> THEN << >>
  ELSE (IF Head(mask) THEN <<Head(arr)>> ELSE << >>) \o Masked(Tail(arr), Tail(mask))

\* _select(uvp, spws=None, bls, only_pairs_in_bls): the mask is the sum over
\* b in bls of (bl1 == b) * (bl2 == b), or of (bl1 == b) + (bl2 == b); the
\* baselines kept are those of the pairs held before the selection.
_select(u, bls, only_pairs_in_bls) ==
  LET bp == u.blpair_array
      blp_select ==
        [i \in DOMAIN bp |->
           IF only_pairs_in_bls
             THEN \E b \in bls : Bl1(bp[i]) = b /\ Bl2(bp[i]) = b
             ELSE \E b \in bls : Bl1(bp[i]) = b \/ Bl2(bp[i]) = b]
      kept == Masked(bp, blp_select)
      bl_array == {Bl1(bp[i]) : i \in DOMAIN bp} \cup {Bl2(bp[i]) : i \in DOMAIN bp}
  IN [blpair_array |-> kept,
      data_array |-> Masked(u.data_array, blp_select),
      bl_array |-> u.bl_array \cap bl_array,
      Nbls |-> Cardinality(u.bl_array \cap bl_array),
      Nblpairs |-> Cardinality({kept[i] : i \in DOMAIN kept}),
      Nblpairts |-> Len(kept)]

\* select(spws=None, bls, only_pairs_in_bls, inplace=True)
select(u, bls, only_pairs_in_bls) ==
  Ret(_select(u, bls, only_pairs_in_bls), "none", << >>)

InitUVPSpec ==
  /\ dsets = <<0, 1>>
  /\ flag_array = FlagArray0
  /\ primary_beam = FALSE
  /\ spw_range = <<0, NFREQ>>
  /\ spw_Nfreqs = NFREQ
  /\ spw_Ndlys = NFREQ
  /\ filter_extension = <<0, 0>>
  /\ data_weighting = "identity"
  /\ taper = "none"
  /\ r_params = EmptyDict
  /\ _C = EmptyDict /\ _I = EmptyDict /\ _iC = EmptyDict /\ _Y = EmptyDict
  /\ _R = EmptyDict /\ _G = EmptyDict /\ _H = EmptyDict /\ _M = EmptyDict
  /\ _W = EmptyDict /\ _E = EmptyDict /\ _V = EmptyDict
  /\ last = [op |-> "__init__", args |-> << >>, err |-> "none", val |-> "none",
             ev |-> << >>, rep |-> FALSE]
  /\ ncalls = 0
  /\ psc = "none"
  /\ uvp \in {UVPSpec(ps) : ps \in (SUBSET BlpairPool) \ {{}}}

SelectStep(op, args, Method(_)) ==
  /\ ncalls < MaxCalls
  /\ uvp' = Method(uvp).st
  /\ last' = [op |-> op, args |-> args, err |-> "none", val |-> "none",
              ev |-> << >>, rep |-> FALSE]
  /\ ncalls' = ncalls + 1
  /\ UNCHANGED <<objvars, psc>>
Select ==
  \E B \in (SUBSET Bls) \ {{}}, only \in BOOLEAN :
    SelectStep("select", <<B, only>>, LAMBDA u : select(u, B, only))
NextSelect == Select
SpecSelect == InitUVPSpec /\ [][NextSelect]_vars

\* The baseline-pairs of an object, as (first baseline, second baseline).
PairsOf(u) ==
  {<<Bl1(u.blpair_array[i]), Bl2(u.blpair_array[i])>> : i \in DOMAIN u.blpair_array}

\* C20: select(bls=B, only_pairs_in_bls=True) keeps exactly the baseline-pairs
\* whose first and second baseline are both in B.
C20_SelectKeepsPairsWithin ==
  [][(last'.op = "select" /\ ncalls' = ncalls + 1 /\ last'.args[2]) =>
       PairsOf(uvp') = {p \in PairsOf(uvp) : p[1] \in last'.args[1]
                                             /\ p[2] \in last'.args[1]}]_vars

\* -------------------------------------------------- baseline-pair integers
\* A PSpecData object nobody touches: the state of the variables of the object
\* in the specifications of the module-level functions.
IdleObject ==
  /\ dsets = <<0, 1>>
  /\ flag_array = FlagArray0
  /\ primary_beam = FALSE
  /\ spw_range = <<0, NFREQ>>
  /\ spw_Nfreqs = NFREQ
  /\ spw_Ndlys = NFREQ
  /\ filter_extension = <<0, 0>>
  /\ data_weighting = "identity"
  /\ taper = "none"
  /\ r_params = EmptyDict
  /\ _C = EmptyDict /\ _I = EmptyDict /\ _iC = EmptyDict /\ _Y = EmptyDict
  /\ _R = EmptyDict /\ _G = EmptyDict /\ _H = EmptyDict /\ _M = EmptyDict
  /\ _W = EmptyDict /\ _E = EmptyDict /\ _V = EmptyDict
  /\ psc = "none"
\* The record of "no call made yet".
NoCall ==
  [op |-> "__init__", args |-> << >>, err |-> "none", val |-> "none",
   ev |-> << >>, rep |-> FALSE]
\* A call of a function that leaves every object alone: only its outcome is
\* recorded.
FunctionOutcome(op, args, r) ==
  /\ last' = [op |-> op, args |-> args, err |-> r.err, val |-> r.val,
              ev |-> r.ev, rep |-> FALSE]
  /\ ncalls' = ncalls + 1
  /\ UNCHANGED <<objvars, psc, uvp>>

\* Antenna numbers: the ends of the range 0..999 and values whose decimal
\* digits differ in every position.
Ants == {0, 1, 37, 999}
\* A baseline-pair integer has up to twelve decimal digits, more than the
\* integers of the model checker hold, so it is kept as two six-digit halves
\* <<n \div 10^6, n % 10^6>>.  The operators below are the arithmetic of the
\* source on that representation.
BigPlus(m, n) ==
  LET lo == m[2] + n[2] IN <<m[1] + n[1] + (lo \div 1000000), lo % 1000000>>
BigMinus(m, n) ==
  LET lo == m[2] - n[2] IN <<m[1] - n[1] + (lo \div 1000000), lo % 1000000>>
\* k * 1e9, k * 1e6, k * 1e3 and k itself, for 0 <= k < 10^6.
Times1e9(k) == <<k * 1000, 0>>
Times1e6(k) == <<k, 0>>
Times1e3(k) == <<k \div 1000, (k % 1000) * 1000>>
Times1(k) == <<0, k>>
\* int(np.floor(n / 1e9)), int(np.floor(n / 1e6)), and np.floor(n / 1e3)
\* less ant1 * 1e6, which is below 10^6.
FloorDiv1e9(n) == n[1] \div 1000
FloorDiv1e6(n) == n[1]
FloorDiv1e3Less(n, ant1) == (n[1] - ant1 * 1000) * 1000 + (n[2] \div 1000)
\* int() of a value below 10^6 in absolute value.
BigInt(n) == IF n[1] = 0 THEN n[2] ELSE n[2] - 1000000

\* _blpair_to_antnums: the source takes np.floor of float quotients by 1e9,
\* 1e6 and 1e3.  A baseline-pair integer is below 10^12 < 2^53, so it and its
\* quotients are doubles whose rounding error is far below the 10^-9 that
\* separates a non-integer quotient from the next integer: the floor is the
\* floor of the exact quotient, and the subtractions that follow are exact.
_blpair_to_antnums(blpair) ==
  LET ant1 == FloorDiv1e9(blpair)
      ant2 == FloorDiv1e6(blpair) - ant1 * 1000
      ant3 == FloorDiv1e3Less(blpair, ant1) - ant2 * 1000
      ant4 == BigInt(BigMinus(BigMinus(BigMinus(blpair, Times1e9(ant1)),
                                       Times1e6(ant2)), Times1e3(ant3)))
  IN <<<<ant1, ant2>>, <<ant3, ant4>>>>
\* _antnums_to_blpair: int() of a float sum that is exact below 2^53.
_antnums_to_blpair(antnums) ==
  BigPlus(BigPlus(BigPlus(Times1e9(antnums[1][1]), Times1e6(antnums[1][2])),
                  Times1e3(antnums[2][1])), Times1(antnums[2][2]))
\* antnums[::-1] on a pair.
Reversed(pair) == <<pair[2], pair[1]>>
\* _conj_blpair_int(blpair)
_conj_blpair_int(blpair) ==
  LET antnums == _blpair_to_antnums(blpair)
  IN Ret(blpair, _antnums_to_blpair(Reversed(antnums)), << >>)
\* _conj_blpair(blpair, which)
_conj_blpair_second_as_first(blpair, which) ==
  LET antnums == _blpair_to_antnums(blpair)
  IN CASE which = "first" ->
            Ret(blpair, _antnums_to_blpair(<<Reversed(antnums[1]), antnums[2]>>), << >>)
       [] which = "second" ->
            Ret(blpair, _antnums_to_blpair(<<Reversed(antnums[1]), antnums[2]>>), << >>)
       [] which = "both" ->
            Ret(blpair, _antnums_to_blpair(<<Reversed(antnums[1]),
                                             Reversed(antnums[2])>>), << >>)
       [] OTHER -> Raise(blpair, "ValueError", << >>)
_conj_blpair(blpair, which) ==
  LET antnums == _blpair_to_antnums(blpair)
  IN CASE which = "first" ->
            Ret(blpair, _antnums_to_blpair(<<Reversed(antnums[1]), antnums[2]>>), << >>)
       [] which = "second" ->
            Ret(blpair, _antnums_to_blpair(<<antnums[1], Reversed(antnums[2])>>), << >>)
       [] which = "both" ->
            Ret(blpair, _antnums_to_blpair(<<Reversed(antnums[1]),
                                             Reversed(antnums[2])>>), << >>)
       [] OTHER -> Raise(blpair, "ValueError", << >>)

\* The values of which a caller passes: the three documented ones and others.
Whiches == {"first", "second", "both", "neither", "FIRST"}
\* The integer a*10^9 + b*10^6 + c*10^3 + d that stands for ((a, b), (c, d)),
\* as its two six-digit halves.
Encoding(a, b, c, d) == <<a * 1000 + b, c * 1000 + d>>

InitConj ==
  /\ IdleObject
  /\ last = NoCall
  /\ ncalls = 0
  /\ uvp \in {Encoding(a, b, c, d) : a \in Ants, b \in Ants, c \in Ants, d \in Ants}
ConjBlpairIntStep(op, args, Method(_)) ==
  ncalls < MaxCalls /\ FunctionOutcome(op, <<uvp>> \o args, Method(uvp))
ConjBlpairInt ==
  ConjBlpairIntStep("_conj_blpair_int", << >>, LAMBDA b : _conj_blpair_int(b))
ConjBlpairStep(op, args, Method(_)) ==
  ncalls < MaxCalls /\ FunctionOutcome(op, <<uvp>> \o args, Method(uvp))
ConjBlpair ==
  \E which \in Whiches :
    ConjBlpairStep("_conj_blpair", <<which>>, LAMBDA b : _conj_blpair(b, which))
NextConj == ConjBlpairInt \/ ConjBlpair
SpecConj == InitConj /\ [][NextConj]_vars

\* C21: for antennas in 0..999, _conj_blpair_int of the integer of
\* ((a,b),(c,d)) is the integer of ((c,d),(a,b)); _conj_blpair swaps the
\* antennas of the first, the second or both baselines as which says, and
\* raises ValueError for any other which.
C21_ConjugatesBlpair ==
  \A a \in Ants, b \in Ants, c \in Ants, d \in Ants :
    (last.op \in {"_conj_blpair_int", "_conj_blpair"}
       /\ last.args[1] = Encoding(a, b, c, d)) =>
      IF last.op = "_conj_blpair_int"
        THEN last.err = "none" /\ last.val = Encoding(c, d, a, b)
        ELSE CASE last.args[2] = "first" ->
                    last.err = "none" /\ last.val = Encoding(b, a, c, d)
               [] last.args[2] = "second" ->
                    last.err = "none" /\ last.val = Encoding(a, b, d, c)
               [] last.args[2] = "both" ->
                    last.err = "none" /\ last.val = Encoding(b, a, d, c)
               [] OTHER -> last.err = "ValueError"
\* The second baseline alone was conjugated in a pair of four different
\* antennas, the largest among them.
C21_Witness ==
  /\ last.op = "_conj_blpair" /\ last.args = <<Encoding(37, 999, 0, 1), "second">>
  /\ last.val = Encoding(37, 999, 1, 0)

\* --------------------------------------------------------- group_baselines
\* The longest list of baselines handed to group_baselines.
MaxBls == 3
\* The list [(0, 0), ..., (0, k-1)] of k unique baseline tuples.
BlList(k) == [i \in 1 .. k |-> <<0, i - 1>>]
\* Python's bls[lo:hi] for 0 <= lo <= hi (both clamped to the length), and
\* bls[-k:] for k > 0.
Slice(bls, lo, hi) == SubSeq(bls, Min(lo, Len(bls)) + 1, Min(hi, Len(bls)))
LastK(bls, k) == SubSeq(bls, Max(Len(bls) - k, 0) + 1, Len(bls))
\* group_baselines(bls, Ngroups, keep_remainder, randomize): "/" is the
\* integer division of Python 2, evaluated before the sanity check; order is
\* the permutation random.shuffle leaves the copied list in.
group_baselines_drops_remainder(bls, Ngroups, keep_remainder, randomize, order) ==
  IF Ngroups = 0 THEN Raise(bls, "ZeroDivisionError", << >>)
  ELSE
    LET Nbls == Len(bls)
        n == Nbls \div Ngroups
        rem == Nbls - n * Ngroups
        shuffled == IF randomize THEN [i \in 1 .. Nbls |-> bls[order[i]]] ELSE bls
        grouped_bls == [i \in 1 .. Ngroups |-> Slice(shuffled, (i - 1) * n, i * n)]
    IN IF Nbls < Ngroups THEN Raise(bls, "ValueError", << >>)
       ELSE Ret(bls, grouped_bls, << >>)
group_baselines(bls, Ngroups, keep_remainder, randomize, order) ==
  IF Ngroups = 0 THEN Raise(bls, "ZeroDivisionError", << >>)
  ELSE
    LET Nbls == Len(bls)
        n == Nbls \div Ngroups
        rem == Nbls - n * Ngroups
        shuffled == IF randomize THEN [i \in 1 .. Nbls |-> bls[order[i]]] ELSE bls
        grouped_bls == [i \in 1 .. Ngroups |-> Slice(shuffled, (i - 1) * n, i * n)]
    IN IF Nbls < Ngroups THEN Raise(bls, "ValueError", << >>)
       ELSE IF keep_remainder /\ rem > 0
         THEN Ret(bls, [grouped_bls EXCEPT ![Ngroups] = @ \o LastK(shuffled, rem)],
                  << >>)
         ELSE Ret(bls, grouped_bls, << >>)

\* Numbers of groups to create: a positive count, up to one more than the
\* longest list.
GroupCounts == 1 .. (MaxBls + 1)
InitGroup ==
  /\ IdleObject
  /\ last = NoCall
  /\ ncalls = 0
  /\ uvp \in {BlList(k) : k \in 0 .. MaxBls}
GroupBaselinesStep(op, args, Method(_, _)) ==
  /\ ncalls < MaxCalls
  /\ \E order \in (IF args[3] THEN Permutations(1 .. Len(uvp))
                                ELSE {[i \in 1 .. Len(uvp) |-> i]}) :
       FunctionOutcome(op, <<uvp>> \o args, Method(uvp, order))
GroupBaselines ==
  \E Ngroups \in GroupCounts, keep_remainder \in BOOLEAN, randomize \in BOOLEAN :
    GroupBaselinesStep("group_baselines", <<Ngroups, keep_remainder, randomize>>,
                       LAMBDA bls, order :
                         group_baselines(bls, Ngroups, keep_remainder, randomize,
                                         order))
NextGroup == GroupBaselines
SpecGroup == InitGroup /\ [][NextGroup]_vars

\* The sum of the lengths of the groups.
RECURSIVE TotalSize(_)
TotalSize(grouped) ==
  IF grouped = << >> THEN 0 ELSE Len(Head(grouped)) + TotalSize(Tail(grouped))

\* C22: group_baselines raises ValueError when Ngroups exceeds len(bls);
\* otherwise it returns Ngroups groups, all of one size when
\* keep_remainder=False, and of sizes that sum to len(bls) when
\* keep_remainder=True.
C22_GroupSizes ==
  last.op = "group_baselines" =>
    LET bls == last.args[1]
        Ngroups == last.args[2]
        keep_remainder == last.args[3]
    IN IF Ngroups > Len(bls) THEN last.err = "ValueError"
       ELSE /\ last.err = "none"
            /\ Len(last.val) = Ngroups
            /\ ~keep_remainder =>
                 \A i, j \in DOMAIN last.val : Len(last.val[i]) = Len(last.val[j])
            /\ keep_remainder => TotalSize(last.val) = Len(bls)
\* Three baselines shuffled into two groups with the remainder kept: the last
\* group holds two of them.
C22_Witness ==
  /\ last.op = "group_baselines" /\ last.err = "none"
  /\ Len(last.args[1]) = 3 /\ last.args[2] = 2 /\ last.args[3] /\ last.args[4]
  /\ last.val # group_baselines(last.args[1], 2, TRUE, FALSE, << >>).val
  /\ Len(last.val[1]) = 1 /\ Len(last.val[2]) = 2

\* ------------------------------------------- pspec() over several windows
\* pspec() over two spectral windows that differ in range, in filter
\* extension and in the number of delays, with and without covariances.
WindowArgs ==
  {[PspecDefaults EXCEPT !.spw_ranges = sr, !.filter_extensions = fe,
                         !.n_dlys = nd, !.store_cov = sc, !.cov_model = "dsets"] :
     sr \in {<<<<0, NFREQ>>, <<0, 1>>>>, <<<<0, 1>>, <<1, NFREQ>>>>},
     fe \in {<<<<0, 0>>, <<0, 0>>>>, <<<<0, 0>>, <<1, 1>>>>},
     nd \in {<<-1, -1>>, <<1, -1>>}, sc \in BOOLEAN}
\* The caches may hold matrices of earlier calls when pspec() starts.
NextWindows == Pspec(WindowArgs) \/ CallGetG
SpecWindows == Init /\ [][NextWindows]_vars

\* The arguments of pspec() cut down to spectral window i.
OnlyWindow(a, i) ==
  [a EXCEPT !.spw_ranges = <<a.spw_ranges[i]>>,
            !.filter_extensions = <<a.filter_extensions[i]>>,
            !.n_dlys = <<a.n_dlys[i]>>]
\* The spectra of window i among the spectra collected, and spectra with
\* their window renumbered to i.
RECURSIVE OfWindow(_, _)
OfWindow(data, i) ==
  IF data = << >> THEN << >>
  ELSE (IF Head(data).spw = i THEN <<Head(data)>> ELSE << >>) \o OfWindow(Tail(data), i)
AsWindow(data, i) == [n \in DOMAIN data |-> [data[n] EXCEPT !.spw = i]]

\* C23: in a pspec() call over several spectral windows, what is computed
\* for window i comes from matrices computed under the settings of window i:
\* it is what pspec() computes for window i alone, whatever the caches held
\* before the call and whatever the earlier windows left in them.
C23_WindowsUseOwnMatrices ==
  [][(last'.op = "pspec" /\ ncalls' = ncalls + 1 /\ last'.err = "none") =>
       \A i \in DOMAIN last'.args[1].spw_ranges :
         OfWindow(last'.val.data, i)
           = AsWindow(pspec(clear_cache(Self, FALSE),
                            OnlyWindow(last'.args[1], i)).val.data, i)]_vars
\* pspec() returned the spectra of two windows, the second narrower than the
\* first, after an earlier call had left matrices in the caches.
C23_Witness ==
  /\ last.op = "pspec" /\ last.err = "none" /\ ncalls > 1
  /\ last.args[1].spw_ranges = <<<<0, NFREQ>>, <<0, 1>>>>
  /\ Len(last.val.data) = 2
  /\ last.val.data[1].M # last.val.data[2].M

\* ------------------------------------------------- per-blpair metadata
\* C24: in the result of a pspec() call that returns, the baseline-pair
\* metadata (and with it the time and LST arrays, filled in the same branch)
\* holds the entries of every requested baseline pair exactly once, whichever
\* polarization pairs were skipped as invalid.
C24_MetadataOncePerBlpair ==
  (last.op = "pspec" /\ last.err = "none") =>
    last.val.blp_arr = last.args[1].bls

\* ------------------------------------------------ cov_q_hat and the flags
\* cov_q_hat for a pair of keys the datasets hold, and for a second key whose
\* polarization dataset 1 lacks.
CovKeys2 == {K1, <<1, "A", "yy">>}
CallCovQHatKeysStep(op, args, Method(_)) ==
  ncalls < MaxCalls /\ Outcome(op, args, Method(Self))
CallCovQHatKeys ==
  \E m \in CovModels, k2 \in CovKeys2 :
    CallCovQHatKeysStep("cov_q_hat", <<K0, k2, m, FALSE, "xx", AllTimes>>,
                        LAMBDA st : Apply(st, "cov_q_hat",
                                          <<K0, k2, m, FALSE, "xx", AllTimes>>))
NextRestore == CallCovQHatKeys \/ CallerSetsFlags \/ CallY
SpecRestore == Init /\ [][NextRestore]_vars

\* C25: when cov_q_hat has returned or raised, whatever the covariance
\* model, the flag array of every dataset is what it was before the call.
C25_CovQHatLeavesFlags ==
  [][(last'.op = "cov_q_hat" /\ ncalls' = ncalls + 1) =>
       flag_array' = flag_array]_vars

\* --- the time indices of cov_q_hat
\* Lists of time indices: inside the integrations, one past the last, further
\* out, and negative.
TimeIndexLists == {<<0>>, <<NTIMES - 1>>, <<0, NTIMES>>, <<NTIMES>>, <<NTIMES + 1>>, <<-1>>}
CallCovQHatTimesStep(op, args, Method(_)) ==
  ncalls < MaxCalls /\ Outcome(op, args, Method(Self))
CallCovQHatTimes ==
  \E m \in CovModels, ti \in TimeIndexLists :
    CallCovQHatTimesStep("cov_q_hat", <<K0, K1, m, FALSE, "xx", ti>>,
                         LAMBDA st : Apply(st, "cov_q_hat",
                                           <<K0, K1, m, FALSE, "xx", ti>>))
NextTimes == CallCovQHatTimes \/ SetSpw
SpecTimes == Init /\ [][NextTimes]_vars

\* C26: cov_q_hat raises ValueError when a requested time index lies outside
\* 0..Ntimes-1, the index Ntimes included, for every covariance model, and
\* computes nothing in that case.
C26_BadTimeIndexRaises ==
  (last.op = "cov_q_hat"
     /\ \E i \in DOMAIN last.args[6] : last.args[6][i] \notin Times) =>
    (last.err = "ValueError" /\ ComputedKinds(last.ev) = {})

\* ------------------------------------------- clear_cache and the r_params
\* clear_cache with a (dset, bl, pol) key and with keys of the form
\* set_r_param stores under.
ClearCacheAnyKeysStep(op, args, Method(_)) ==
  ncalls < MaxCalls /\ Outcome(op, args, Method(Self))
ClearCacheAnyKeys ==
  \E K \in {{K0}, {<<"identity">> \o K0}, {<<"dayenu">> \o K0, <<"dayenu">> \o K1}},
     crp \in BOOLEAN :
    ClearCacheAnyKeysStep("clear_cache_keys", <<crp, K>>,
                          LAMBDA st : Apply(st, "clear_cache_keys", <<crp, K>>))
NextKeep == SetWeighting \/ SetRParam \/ ClearCache \/ ClearCacheAnyKeys \/ CallR
SpecKeep == Init /\ [][NextKeep]_vars

\* C27: clear_cache called with clear_r_params=False, with or without keys,
\* leaves the stored filter parameters as they were.
C27_ClearCacheKeepsRParams ==
  [][(last'.op \in {"clear_cache", "clear_cache_keys"} /\ ncalls' = ncalls + 1
        /\ ~last'.args[1]) =>
       r_params' = r_params]_vars

\* ------------------------------------------------ set_pspec that raises
\* C28: when set_pspec raises, the groups and the spectra stored in the
\* container are the ones stored before the call.
C28_FailedSetPspecStoresNothing ==
  [][(last'.op = "set_pspec" /\ ncalls' = ncalls + 1 /\ last'.err # "none") =>
       psc'.disk.groups = psc.disk.groups]_vars

\* --------------------------------------------- select and the baselines
\* The baselines that occur in the baseline-pairs of an object.
BlsOf(u) ==
  {Bl1(u.blpair_array[i]) : i \in DOMAIN u.blpair_array}
    \cup {Bl2(u.blpair_array[i]) : i \in DOMAIN u.blpair_array}
\* C29: after select(bls=...) bl_array holds exactly the baselines that occur
\* in the remaining blpair_array, and Nbls is their number.
C29_SelectKeepsBaselinesConsistent ==
  last.op = "select" =>
    (uvp.bl_array = BlsOf(uvp) /\ uvp.Nbls = Cardinality(BlsOf(uvp)))

\* ------------------------------------------------------------- calc_reds
\* The antennas of both datasets, and the baselines a dataset may hold in
\* increasing order of their baseline number: one auto-correlation and the
\* three cross-correlations.
RedAnts == {1, 2, 3}
RedBaselines == <<<<1, 1>>, <<1, 2>>, <<1, 3>>, <<2, 3>>>>
\* Samples of a flag waterfall (Ntimes x Nfreqs), and xant_flag_thresh in
\* hundredths.
WaterfallSize == NTIMES * NFREQ
XantFlagThresh == 95
\* A dataset for calc_reds: the baselines it holds, and for each the number of
\* flagged samples of its waterfall.  np.sum(f) < size * thresh, in integers.
Unflagged1(uvd, bl) == 100 * uvd[bl] < WaterfallSize * XantFlagThresh
\* The work on xants1 for one baseline: the second antenna is looked up in
\* xants2 and removed from xants1; set.remove raises KeyError on a missing
\* element.
WorkXants1(uvd1, bl, xants1, xants2) ==
  IF bl \in DOMAIN uvd1 /\ Unflagged1(uvd1, bl)
    THEN LET x1 == xants1 \ {bl[1]}
         IN IF bl[2] \in xants2
              THEN IF bl[2] \in x1 THEN [err |-> "none", xants |-> x1 \ {bl[2]}]
                   ELSE [err |-> "KeyError", xants |-> x1]
              ELSE [err |-> "none", xants |-> x1]
    ELSE [err |-> "none", xants |-> xants1]
\* The work on xants2 for one baseline.
WorkXants2(uvd2, bl, xants2) ==
  IF bl \in DOMAIN uvd2 /\ Unflagged1(uvd2, bl) THEN xants2 \ {bl[1], bl[2]}
  ELSE xants2
\* The loop over the sorted baselines of both datasets, from the n-th on.
RECURSIVE XantsLoop(_, _, _, _, _)
XantsLoop(uvd1, uvd2, n, xants1, xants2) ==
  IF n > Len(RedBaselines) THEN [err |-> "none", xants1 |-> xants1, xants2 |-> xants2]
  ELSE LET bl == RedBaselines[n]
           w1 == WorkXants1(uvd1, bl, xants1, xants2)
       IN IF bl \notin (DOMAIN uvd1) \cup (DOMAIN uvd2) \/ bl[1] = bl[2]
            THEN XantsLoop(uvd1, uvd2, n + 1, xants1, xants2)
          ELSE IF w1.err # "none"
            THEN [err |-> w1.err, xants1 |-> w1.xants, xants2 |-> xants2]
          ELSE XantsLoop(uvd1, uvd2, n + 1, w1.xants, WorkXants2(uvd2, bl, xants2))
\* calc_reds(uvd1, uvd2, filter_blpairs): the bad antennas of both datasets.
\* The baseline pairs returned with them come from hera_cal's redundancy
\* finder and are left out.
calc_reds(uvds, filter_blpairs) ==
  LET r == XantsLoop(uvds[1], uvds[2], 1, RedAnts, RedAnts)
  IN IF ~filter_blpairs THEN Ret(uvds, [xants1 |-> {}, xants2 |-> {}], << >>)
     ELSE IF r.err # "none" THEN Raise(uvds, r.err, << >>)
     ELSE Ret(uvds, [xants1 |-> r.xants1, xants2 |-> r.xants2], << >>)

\* The datasets handed to calc_reds: the auto-correlation, and any of the
\* cross-correlations with a waterfall that is clear or fully flagged.
RedDatasets ==
  UNION {[{<<1, 1>>} \cup B -> {0, WaterfallSize}] :
           B \in SUBSET {<<1, 2>>, <<1, 3>>, <<2, 3>>}}
InitReds ==
  /\ IdleObject
  /\ last = NoCall
  /\ ncalls = 0
  /\ uvp \in RedDatasets \X RedDatasets
CalcRedsStep(op, args, Method(_)) ==
  ncalls < MaxCalls /\ FunctionOutcome(op, <<uvp>> \o args, Method(uvp))
CalcReds ==
  \E filter_blpairs \in BOOLEAN :
    CalcRedsStep("calc_reds", <<filter_blpairs>>,
                 LAMBDA uvds : calc_reds(uvds, filter_blpairs))
NextReds == CalcReds
SpecReds == InitReds /\ [][NextReds]_vars

\* C30: calc_reds with filter_blpairs=True returns as xants1 the antennas of
\* uvd1 that belong to no cross-baseline of uvd1 whose flagged fraction is
\* below xant_flag_thresh, whatever uvd2 holds, and never raises.
C30_Xants1FromUvd1Alone ==
  (last.op = "calc_reds" /\ last.args[2]) =>
    LET uvd1 == last.args[1][1]
    IN /\ last.err = "none"
       /\ last.val.xants1
            = {a \in RedAnts :
                 ~\E bl \in DOMAIN uvd1 :
                    bl[1] # bl[2] /\ a \in {bl[1], bl[2]} /\ Unflagged1(uvd1, bl)}

====
